---- MODULE Spec2Model ----
(***************************************************************************)
(* PayGuard DQ: the scoring engine (ScoringAgent) and the anomaly          *)
(* aggregation (AnomalyDetectionAgent.detect).                              *)
(*                                                                         *)
(* Number representation.  The program computes in binary floating point;  *)
(* the model computes the same expressions exactly, in rationals:          *)
(*   - an error rate is an integer number of percent (55 is 0.55);         *)
(*   - a score and a dimension weight are integers in hundredths           *)
(*     (10000 is 100.0, 250 is 2.5), which is what round(x, 2) returns;    *)
(*   - an intermediate value is a fraction [n |-> .., d |-> ..], d > 0.    *)
(* round(x, k) is modelled by what it does (round half to even), not as    *)
(* the identity.  Where the exact value is a decimal tie (42.875) the      *)
(* float the program holds lies just beside it, and the program's result   *)
(* may be either neighbour; the model's result is then within 0.01 of it   *)
(* (the operators agree with the Python code on random inputs up to that). *)
(***************************************************************************)
EXTENDS Integers, Sequences, FiniteSets, TLC

VARIABLES
    check_results,        \* compute_scores argument: list of CheckResult dicts
    profile,              \* compute_scores argument: the Profile dict
    selected_dimensions,  \* compute_scores argument: list of dimension names
    pc,                   \* position in the running call
    dim_index,            \* position of the loop over selected_dimensions
    checks_by_dimension,  \* local of compute_scores
    dimension_scores,     \* local, then result field
    dimension_weights,    \* local, then result field
    composite_dqs,        \* result field (-1: not computed yet)
    duration_ms,          \* result field (-1: not computed yet)
    exception,            \* "none", or the exception that left the call
    agents,               \* the ScoringAgent instances: id -> attributes
    self,                 \* the instance the running call was made on
    history,              \* completed compute_scores calls: arguments, result
    df,                   \* detect argument: the dataset
    sklearn_available,    \* whether `from sklearn...` imports
    anomalies,            \* local of detect: the four finding lists
    detect_check_results, \* local of detect: its check_results list
    detect_result         \* what detect returned (None: not returned yet)

detect_vars == <<df, sklearn_available, anomalies, detect_check_results,
                 detect_result>>

vars == <<check_results, profile, selected_dimensions, pc, dim_index,
          checks_by_dimension, dimension_scores, dimension_weights,
          composite_dqs, duration_ms, exception, agents, self, history,
          df, sklearn_available, anomalies, detect_check_results,
          detect_result>>

----------------------------------------------------------------------------
(* Exact arithmetic on fractions.                                          *)

RECURSIVE GCD(_, _)
GCD(a, b) == IF b = 0 THEN a ELSE GCD(b, a % b)

\* The fraction n/d (d > 0) in lowest terms.
Frac(n, d) ==
    LET g == GCD(IF n < 0 THEN -n ELSE n, d)
    IN  [n |-> n \div g, d |-> d \div g]

FracLess(a, b) == a.n * b.d < b.n * a.d

FracMin(a, b) == IF FracLess(b, a) THEN b ELSE a

FracMax(a, b) == IF FracLess(a, b) THEN b ELSE a

FracMul(a, n, d) == Frac(a.n * n, a.d * d)

\* Python's round(): the nearest integer of n/d (d > 0), a tie going to the
\* even neighbour.
RoundHalfEven(n, d) ==
    LET q == n \div d
        r == n % d
    IN  IF 2 * r < d THEN q
        ELSE IF 2 * r > d THEN q + 1
        ELSE IF q % 2 = 0 THEN q ELSE q + 1

RECURSIVE SumTo(_, _)
SumTo(f, n) == IF n = 0 THEN 0 ELSE f[n] + SumTo(f, n - 1)

MaxOf(S) == CHOOSE x \in S : \A y \in S : y <= x

\* dict.get(key, default)
Get(d, key, default) == IF key \in DOMAIN d THEN d[key] ELSE default

\* {} : the dict with no key
EmptyDict == [k \in {} |-> 0]

----------------------------------------------------------------------------
(* Values stored in a metrics mapping.                                     *)

Num(v)     == [kind |-> "float", val |-> v]     \* a number, in percent
NumText(v) == [kind |-> "str", numeric |-> TRUE, val |-> v]   \* "0.55"
Text       == [kind |-> "str", numeric |-> FALSE, val |-> 0]  \* "n/a"
None       == [kind |-> "none", val |-> 0]

\* float(x): a number or a numeric string converts, None raises TypeError,
\* any other string raises ValueError.
ToFloat(v) ==
    IF v.kind = "float" THEN [raised |-> "none", val |-> v.val]
    ELSE IF v.kind = "none" THEN [raised |-> "TypeError", val |-> 0]
    ELSE IF v.numeric THEN [raised |-> "none", val |-> v.val]
    ELSE [raised |-> "ValueError", val |-> 0]

\* Mutant of RateFields: anomaly_rate is read as an error rate too.
RateFields_WithAnomalyRate ==
    <<"overall_null_rate", "overall_duplicate_rate", "overall_invalid_rate",
      "inconsistent_rate", "violation_rate", "excessive_delay_rate",
      "anomaly_rate">>

RateFields == <<"overall_null_rate", "overall_duplicate_rate",
                "overall_invalid_rate", "inconsistent_rate",
                "violation_rate", "excessive_delay_rate">>

MatchFields == <<"match_rate", "overall_reconciliation_rate">>

\* The first field of the list `fields` that is a key of `metrics` (0: none).
FirstPresent(fields, metrics) ==
    LET hits == {i \in 1..Len(fields) : fields[i] \in DOMAIN metrics}
    IN  IF hits = {} THEN 0 ELSE CHOOSE i \in hits : \A j \in hits : i <= j

\* Mutant of FallbackRate: a failed check without a rate field counts for
\* 50%.
FallbackRate_Half(check) ==
    IF ~Get(check, "passed", TRUE) THEN 50 ELSE 0

\* The value _extract_error_rate falls back to when metrics holds none of the
\* fields: 5% for a failed check, else 0.
FallbackRate(check) ==
    IF ~Get(check, "passed", TRUE) THEN 5 ELSE 0

extract_error_rate(check) ==
    LET metrics == Get(check, "metrics", EmptyDict)
        r == FirstPresent(RateFields, metrics)
        m == FirstPresent(MatchFields, metrics)
    IN  IF r # 0
        THEN LET f == ToFloat(metrics[RateFields[r]])
             IN  [raised |-> f.raised, rate |-> f.val]
        ELSE IF m # 0
        THEN LET f == ToFloat(metrics[MatchFields[m]])
             IN  [raised |-> f.raised, rate |-> 100 - f.val]
        ELSE [raised |-> "none", rate |-> FallbackRate(check)]

----------------------------------------------------------------------------
(* _get_dimension_weight: the base-weight table and the criticality boost. *)
(* A column name is a tuple of characters, so that `in` (substring) and    *)
(* lower() are computed, not assumed.                                      *)

IsSubstring(p, s) ==
    \E i \in 0..(Len(s) - Len(p)) : SubSeq(s, i + 1, i + Len(p)) = p

LowerChar(c) ==
    CASE c = "A" -> "a" [] c = "C" -> "c" [] c = "I" -> "i"
      [] c = "M" -> "m" [] c = "T" -> "t" [] OTHER -> c

lower(s) == [i \in 1..Len(s) |-> LowerChar(s[i])]

FIELD_CRITICALITY == <<
    [field |-> <<"a","m","o","u","n","t">>, criticality |-> 3],
    [field |-> <<"c","u","r","r","e","n","c","y">>, criticality |-> 3],
    [field |-> <<"t","x","n","_","i","d">>, criticality |-> 3],
    [field |-> <<"t","r","a","n","s","a","c","t","i","o","n","_","i","d">>,
     criticality |-> 3],
    [field |-> <<"s","t","a","t","u","s">>, criticality |-> 3],
    [field |-> <<"m","e","r","c","h","a","n","t","_","i","d">>, criticality |-> 2],
    [field |-> <<"m","c","c">>, criticality |-> 2],
    [field |-> <<"c","o","u","n","t","r","y">>, criticality |-> 2],
    [field |-> <<"m","e","r","c","h","a","n","t">>, criticality |-> 2],
    [field |-> <<"c","u","s","t","o","m","e","r","_","i","d">>, criticality |-> 3],
    [field |-> <<"k","y","c">>, criticality |-> 3],
    [field |-> <<"c","o","m","p","l","i","a","n","c","e">>, criticality |-> 3] >>

\* Column names, as character tuples.
ColAmount     == <<"A","m","o","u","n","t">>
ColCurrency   == <<"c","u","r","r","e","n","c","y">>
ColTxnId      == <<"t","x","n","_","i","d">>
ColMerchantId == <<"m","e","r","c","h","a","n","t","_","i","d">>
ColMCC        == <<"M","C","C">>
ColNotes      == <<"n","o","t","e","s">>

KnownColumns ==
    {ColAmount, ColCurrency, ColTxnId, ColMerchantId, ColMCC, ColNotes}

\* The criticality one column name adds: every matching keyword counts.
ColumnCriticality(col_name) ==
    LET col_lower == lower(col_name)
        hit == [i \in 1..Len(FIELD_CRITICALITY) |->
                  IF IsSubstring(FIELD_CRITICALITY[i].field, col_lower)
                  THEN FIELD_CRITICALITY[i].criticality ELSE 0]
    IN  SumTo(hit, Len(FIELD_CRITICALITY))

\* ColumnCriticality of the column names the model uses, computed once.
KnownCriticality == [c \in KnownColumns |-> ColumnCriticality(c)]

\* Lines 263-269: the sum over profile["columns"].keys().
RECURSIVE critical_count(_)
critical_count(columns) ==
    IF columns = {} THEN 0
    ELSE LET c == CHOOSE x \in columns : TRUE
         IN  (IF c \in KnownColumns THEN KnownCriticality[c]
              ELSE ColumnCriticality(c))
             + critical_count(columns \ {c})

\* base_weights.get(dimension, 2.0), in hundredths
base_weights(dimension) ==
    CASE dimension = "completeness"   -> 200
      [] dimension = "uniqueness"     -> 300
      [] dimension = "validity"       -> 250
      [] dimension = "consistency"    -> 250
      [] dimension = "timeliness"     -> 200
      [] dimension = "integrity"      -> 250
      [] dimension = "reconciliation" -> 300
      [] OTHER                        -> 200

\* Mutant of get_dimension_weight: the boost starts at a criticality of 10.
get_dimension_weight_FromTen(dimension, prof) ==
    LET weight  == base_weights(dimension)
        columns == Get(prof, "columns", {})
    IN  IF critical_count(columns) >= 10
        THEN RoundHalfEven(weight * 12, 10)
        ELSE weight

get_dimension_weight(dimension, prof) ==
    LET weight  == base_weights(dimension)
        columns == Get(prof, "columns", {})
    IN  IF critical_count(columns) > 10
        THEN RoundHalfEven(weight * 12, 10)
        ELSE weight

----------------------------------------------------------------------------
(* _compute_dimension_score                                                *)

\* severity_weights.get(severity, 2.0)
severity_weights(severity) ==
    CASE severity = "critical" -> 4
      [] severity = "high"     -> 3
      [] severity = "medium"   -> 2
      [] severity = "low"      -> 1
      [] OTHER                 -> 2

\* Mutant of ApplyCriticalCaps: the ceiling of 30 is missing.
ApplyCriticalCaps_NoThirty(base_score, critical_fails, max_error) ==
    IF critical_fails >= 1 /\ max_error > 30
    THEN IF critical_fails >= 2 /\ max_error > 30
         THEN FracMin(base_score, Frac(50, 1))
         ELSE IF critical_fails >= 1 /\ max_error > 20
         THEN FracMin(base_score, Frac(65, 1))
         ELSE base_score
    ELSE base_score

\* Mutant of ApplyCriticalCaps: the outer comparison is turned around.
ApplyCriticalCaps_Flipped(base_score, critical_fails, max_error) ==
    IF critical_fails >= 1 /\ max_error < 30
    THEN IF critical_fails >= 3
         THEN FracMin(base_score, Frac(30, 1))
         ELSE IF critical_fails >= 2
         THEN FracMin(base_score, Frac(50, 1))
         ELSE FracMin(base_score, Frac(65, 1))
    ELSE base_score

\* Lines 155-162: the ceilings keyed to the number of critical failures and
\* the largest error rate (percent) among the failing checks.
ApplyCriticalCaps(base_score, critical_fails, max_error) ==
    IF critical_fails >= 1 /\ max_error > 30
    THEN IF critical_fails >= 3 /\ max_error > 50
         THEN FracMin(base_score, Frac(30, 1))
         ELSE IF critical_fails >= 2 /\ max_error > 30
         THEN FracMin(base_score, Frac(50, 1))
         ELSE IF critical_fails >= 1 /\ max_error > 20
         THEN FracMin(base_score, Frac(65, 1))
         ELSE base_score
    ELSE base_score

\* Mutant of ApplyFailRatioPenalty: the two multipliers are exchanged.
ApplyFailRatioPenalty_Exchanged(base_score, n_failing, n_checks) ==
    IF 2 * n_failing > n_checks THEN FracMul(base_score, 85, 100)
    ELSE IF 10 * n_failing > 3 * n_checks THEN FracMul(base_score, 7, 10)
    ELSE base_score

\* Lines 165-169: fail_ratio = n_failing / n_checks; > 0.5: *0.7, > 0.3: *0.85.
ApplyFailRatioPenalty(base_score, n_failing, n_checks) ==
    IF 2 * n_failing > n_checks THEN FracMul(base_score, 7, 10)
    ELSE IF 10 * n_failing > 3 * n_checks THEN FracMul(base_score, 85, 100)
    ELSE base_score

\* Mutant of Clamp100: the upper clamp is missing.
Clamp100_NoUpper(x) == FracMax(Frac(0, 1), x)

\* Line 171: max(0, min(100, base_score))
Clamp100(x) == FracMax(Frac(0, 1), FracMin(Frac(100, 1), x))

\* round(x, 2) of a fraction, in hundredths
Round2(x) == RoundHalfEven(x.n * 100, x.d)

\* Mutant of NoChecksScore: the default weight of the base table.
NoChecksScore_TableWeight ==
    [raised |-> "none", score |-> 10000, weight |-> 200,
     explainability |-> [message |-> "No checks executed for this dimension"]]

\* The result of the `if not checks` branch (lines 86-93).
NoChecksScore ==
    [raised |-> "none", score |-> 10000, weight |-> 100,
     explainability |-> [message |-> "No checks executed for this dimension"]]

\* Mutant of LoopStart: the counters live on the instance and are not reset,
\* so a call starts from what the earlier calls left.
LoopStart_Carried ==
    [raised |-> "none", total_error_weight |-> 0,
     total_weight |-> Cardinality(history),
     critical_fails |-> 0, high_fails |-> 0, failing_checks |-> <<>>]

\* The locals before the loop over the checks (lines 96-110).
LoopStart ==
    [raised |-> "none", total_error_weight |-> 0, total_weight |-> 0,
     critical_fails |-> 0, high_fails |-> 0, failing_checks |-> <<>>]

\* Mutant of LoopStep: the error rate is added without the severity weight.
LoopStep_UnweightedError(acc, check, er) ==
    LET severity == Get(check, "severity", "medium")
        weight   == severity_weights(severity)
        failed   == ~Get(check, "passed", TRUE)
    IN  IF acc.raised # "none" THEN acc
        ELSE IF er.raised # "none" THEN [acc EXCEPT !.raised = er.raised]
        ELSE [raised             |-> "none",
              total_error_weight |-> acc.total_error_weight + er.rate,
              total_weight       |-> acc.total_weight + weight,
              critical_fails     |-> acc.critical_fails +
                                     (IF failed /\ severity = "critical" THEN 1 ELSE 0),
              high_fails         |-> acc.high_fails +
                                     (IF failed /\ severity = "high" THEN 1 ELSE 0),
              failing_checks     |->
                  IF failed
                  THEN Append(acc.failing_checks,
                              [check_id   |-> Get(check, "check_id", "None"),
                               severity   |-> severity,
                               error_rate |-> er.rate])
                  ELSE acc.failing_checks]

\* Lines 112-133: one turn of the loop, for a check whose error rate
\* _extract_error_rate gave as `er`.  An exception ends the loop.
LoopStep(acc, check, er) ==
    LET severity == Get(check, "severity", "medium")
        weight   == severity_weights(severity)
        failed   == ~Get(check, "passed", TRUE)
    IN  IF acc.raised # "none" THEN acc
        ELSE IF er.raised # "none" THEN [acc EXCEPT !.raised = er.raised]
        ELSE [raised             |-> "none",
              total_error_weight |-> acc.total_error_weight + er.rate * weight,
              total_weight       |-> acc.total_weight + weight,
              critical_fails     |-> acc.critical_fails +
                                     (IF failed /\ severity = "critical" THEN 1 ELSE 0),
              high_fails         |-> acc.high_fails +
                                     (IF failed /\ severity = "high" THEN 1 ELSE 0),
              failing_checks     |->
                  IF failed
                  THEN Append(acc.failing_checks,
                              [check_id   |-> Get(check, "check_id", "None"),
                               severity   |-> severity,
                               error_rate |-> er.rate])
                  ELSE acc.failing_checks]

\* The locals after the first k checks.  (Each turn's inputs are bound as
\* elements of singleton sets, so that they are evaluated once.)
RECURSIVE LoopOver(_, _)
LoopOver(checks, k) ==
    IF k = 0 THEN LoopStart
    ELSE CHOOSE r \in {LoopStep(acc, checks[k], er) :
                          acc \in {LoopOver(checks, k - 1)},
                          er \in {extract_error_rate(checks[k])}} : TRUE

\* Lines 146-190, from the locals the loop leaves.
ScoreFromLoop(dimension, n_checks, prof, acc) ==
    LET n_failing == Len(acc.failing_checks)
        \* weighted_error_rate = total_error_weight / total_weight
        wer == IF acc.total_weight > 0
               THEN Frac(acc.total_error_weight, 100 * acc.total_weight)
               ELSE Frac(0, 1)
        \* max(0, 100 * (1 - weighted_error_rate))
        base_score == FracMax(Frac(0, 1), Frac(100 * (wer.d - wer.n), wer.d))
        penalised ==
            IF n_failing > 0
            THEN LET max_error ==
                         MaxOf({acc.failing_checks[i].error_rate : i \in 1..n_failing})
                 IN  ApplyFailRatioPenalty(
                         ApplyCriticalCaps(base_score, acc.critical_fails, max_error),
                         n_failing, n_checks)
            ELSE base_score
    IN  IF acc.raised # "none"
        THEN [raised |-> acc.raised, score |-> 0, weight |-> 0,
              explainability |-> EmptyDict]
        ELSE [raised |-> "none",
              score  |-> Round2(Clamp100(penalised)),
              weight |-> get_dimension_weight(dimension, prof),
              explainability |->
                [weighted_error_rate |-> RoundHalfEven(wer.n * 10000, wer.d),
                 total_checks        |-> n_checks,
                 critical_failures   |-> acc.critical_fails,
                 high_failures       |-> acc.high_fails,
                 failing_checks      |-> acc.failing_checks]]

compute_dimension_score(dimension, checks, prof) ==
    IF Len(checks) = 0 THEN NoChecksScore
    ELSE CHOOSE r \in {ScoreFromLoop(dimension, Len(checks), prof, acc) :
                          acc \in {LoopOver(checks, Len(checks))}} : TRUE

----------------------------------------------------------------------------
(* _compute_composite_score.  Scores and ceilings are in hundredths.       *)

RECURSIVE SumOver(_, _)
SumOver(S, f) ==
    IF S = {} THEN 0
    ELSE LET x == CHOOSE y \in S : TRUE IN f[x] + SumOver(S \ {x}, f)

critical_dims == {"completeness", "validity", "uniqueness"}

\* Mutant of ApplyCompositeCeiling: max in place of min, the ceilings become
\* floors.
ApplyCompositeCeiling_Floor(weighted_avg, min_score, scores_below_50) ==
    IF scores_below_50 > 0
    THEN IF min_score < 2000 THEN FracMax(weighted_avg, Frac(3000, 1))
         ELSE IF min_score < 4000 THEN FracMax(weighted_avg, Frac(4500, 1))
         ELSE IF min_score < 5000 THEN FracMax(weighted_avg, Frac(5500, 1))
         ELSE weighted_avg
    ELSE weighted_avg

\* Lines 322-329: the ceiling keyed to min_score, when some score is below 50.
ApplyCompositeCeiling(weighted_avg, min_score, scores_below_50) ==
    IF scores_below_50 > 0
    THEN IF min_score < 2000 THEN FracMin(weighted_avg, Frac(3000, 1))
         ELSE IF min_score < 4000 THEN FracMin(weighted_avg, Frac(4500, 1))
         ELSE IF min_score < 5000 THEN FracMin(weighted_avg, Frac(5500, 1))
         ELSE weighted_avg
    ELSE weighted_avg

\* Mutant of ApplyCriticalDimPenalty: the tiers for two and for three failing
\* critical dimensions are exchanged.
ApplyCriticalDimPenalty_Exchanged(composite, critical_dim_failing) ==
    IF critical_dim_failing >= 3 THEN FracMul(composite, 65, 100)
    ELSE IF critical_dim_failing >= 2 THEN FracMul(composite, 5, 10)
    ELSE IF critical_dim_failing >= 1 THEN FracMul(composite, 8, 10)
    ELSE composite

\* Lines 332-337: the penalty for failing critical dimensions.
ApplyCriticalDimPenalty(composite, critical_dim_failing) ==
    IF critical_dim_failing >= 3 THEN FracMul(composite, 5, 10)
    ELSE IF critical_dim_failing >= 2 THEN FracMul(composite, 65, 100)
    ELSE IF critical_dim_failing >= 1 THEN FracMul(composite, 8, 10)
    ELSE composite

\* Mutant of BlendTowardMinimum: the two blend factors are exchanged.
BlendTowardMinimum_Swapped(composite, min_score, scores_below_50) ==
    IF min_score < 3000
    THEN Frac(7 * composite.n + 3 * min_score * composite.d, 10 * composite.d)
    ELSE IF min_score < 5000 /\ scores_below_50 >= 2
    THEN Frac(composite.n + min_score * composite.d, 2 * composite.d)
    ELSE composite

\* Lines 340-345: the blend toward the minimum.
BlendTowardMinimum(composite, min_score, scores_below_50) ==
    IF min_score < 3000
    THEN Frac(3 * composite.n + 7 * min_score * composite.d, 10 * composite.d)
    ELSE IF min_score < 5000 /\ scores_below_50 >= 2
    THEN Frac(composite.n + min_score * composite.d, 2 * composite.d)
    ELSE composite

\* Line 318: total_weighted_score / total_weight if total_weight > 0 else 0
WeightedAverage(scores, weights) ==
    LET dims == DOMAIN scores
        total_weighted_score ==
            SumOver(dims, [d \in dims |-> scores[d].score * Get(weights, d, 100)])
        total_weight == SumOver(dims, [d \in dims |-> Get(weights, d, 100)])
    IN  IF total_weight > 0 THEN Frac(total_weighted_score, total_weight)
        ELSE Frac(0, 1)

\* min_score starts at 100 (line 289) and follows every lower score.
MinScore(scores) ==
    LET all == {scores[d].score : d \in DOMAIN scores} \cup {10000}
    IN  CHOOSE x \in all : \A y \in all : x <= y

ScoresBelow50(scores) ==
    Cardinality({d \in DOMAIN scores : scores[d].score < 5000})

CriticalDimFailing(scores) ==
    Cardinality({d \in DOMAIN scores :
                    d \in critical_dims /\ scores[d].score < 6000})

\* Lines 318-347, from the values the loop over the dimensions leaves.
CompositeFromLoop(weighted_avg, min_score, scores_below_50, critical_dim_failing) ==
    LET capped    == ApplyCompositeCeiling(weighted_avg, min_score, scores_below_50)
        penalised == ApplyCriticalDimPenalty(capped, critical_dim_failing)
        blended   == BlendTowardMinimum(penalised, min_score, scores_below_50)
        clamped   == FracMax(Frac(0, 1), FracMin(Frac(10000, 1), blended))
    IN  RoundHalfEven(clamped.n, clamped.d)

compute_composite_score(scores, weights) ==
    IF DOMAIN scores = {} THEN 0
    ELSE CHOOSE r \in
           {CompositeFromLoop(weighted_avg, min_score, scores_below_50,
                              critical_dim_failing) :
               weighted_avg \in {WeightedAverage(scores, weights)},
               min_score \in {MinScore(scores)},
               scores_below_50 \in {ScoresBelow50(scores)},
               critical_dim_failing \in {CriticalDimFailing(scores)}} : TRUE

----------------------------------------------------------------------------
(* compute_scores, step by step.                                           *)

\* check.get("dimension", "unknown")
DimensionOf(check) == Get(check, "dimension", "unknown")

\* Mutant of GroupByDimension: every dimension's list holds every check.
GroupByDimension_Everywhere(checks) ==
    LET dims == {DimensionOf(checks[i]) : i \in 1..Len(checks)}
    IN  [d \in dims |-> checks]

\* Lines 47-53: the checks of each dimension, in input order.
GroupByDimension(checks) ==
    LET dims == {DimensionOf(checks[i]) : i \in 1..Len(checks)}
    IN  [d \in dims |-> SelectSeq(checks, LAMBDA c : DimensionOf(c) = d)]

\* ScoringAgent(): __init__ sets the name and nothing else.
NewAgent == [name |-> "ScoringAgent"]

\* Upper end of the modelled duration_ms (wall-clock milliseconds).
MaxDurationMs == 1

GroupChecks ==
    /\ pc = "group"
    /\ checks_by_dimension' = GroupByDimension(check_results)
    /\ dimension_scores' = EmptyDict
    /\ dimension_weights' = EmptyDict
    /\ dim_index' = 1
    /\ pc' = "score"
    /\ UNCHANGED <<check_results, profile, selected_dimensions, composite_dqs,
                   duration_ms, exception, agents, self, history>>
    /\ UNCHANGED detect_vars

\* Lines 59-66: one turn of the loop over selected_dimensions.  An exception
\* raised while scoring leaves compute_scores.
ScoreDimension ==
    /\ pc = "score"
    /\ dim_index <= Len(selected_dimensions)
    /\ \E dimension \in {selected_dimensions[dim_index]} :
       \E score_result \in {compute_dimension_score(
                                dimension,
                                Get(checks_by_dimension, dimension, <<>>),
                                profile)} :
           IF score_result.raised # "none"
           THEN /\ exception' = score_result.raised
                /\ pc' = "raised"
                /\ UNCHANGED <<dimension_scores, dimension_weights, dim_index>>
           ELSE /\ dimension_scores' =
                     [d \in DOMAIN dimension_scores \cup {dimension} |->
                        IF d = dimension
                        THEN [score |-> score_result.score,
                              weight |-> score_result.weight,
                              explainability |-> score_result.explainability]
                        ELSE dimension_scores[d]]
                /\ dimension_weights' =
                     [d \in DOMAIN dimension_weights \cup {dimension} |->
                        IF d = dimension THEN score_result.weight
                        ELSE dimension_weights[d]]
                /\ dim_index' = dim_index + 1
                /\ UNCHANGED <<pc, exception>>
    /\ UNCHANGED <<check_results, profile, selected_dimensions,
                   checks_by_dimension, composite_dqs, duration_ms,
                   agents, self, history>>
    /\ UNCHANGED detect_vars

\* Lines 69-78: the composite, the duration and the returned record.
ReturnScores ==
    /\ pc = "score"
    /\ dim_index > Len(selected_dimensions)
    /\ composite_dqs' = compute_composite_score(dimension_scores, dimension_weights)
    /\ \E ms \in 0..MaxDurationMs : duration_ms' = ms
    /\ pc' = "done"
    /\ history' = history \cup
         {[call |-> Cardinality(history) + 1,
           instance |-> self,
           args |-> <<check_results, profile, selected_dimensions>>,
           result |-> [dimension_scores  |-> dimension_scores,
                       dimension_weights |-> dimension_weights,
                       composite_dqs     |-> composite_dqs']]}
    /\ UNCHANGED <<check_results, profile, selected_dimensions, dim_index,
                   checks_by_dimension, dimension_scores, dimension_weights,
                   exception, agents, self>>
    /\ UNCHANGED detect_vars

Next == GroupChecks \/ ScoreDimension \/ ReturnScores

----------------------------------------------------------------------------
(* AnomalyDetectionAgent.  A dataset is its row count and its columns; a    *)
(* numeric column is what the detectors read of it (how many values are not *)
(* missing, whether one of them is infinite, which makes the library's fit  *)
(* raise ValueError); an object or category column is its value_counts().   *)
(* What IsolationForest predicts is not computed: the number of values it   *)
(* flags is any count the fitted data allows.                               *)

NumericColumn(name, non_missing, infinite) ==
    [name |-> name, dtype |-> "float64", non_missing |-> non_missing,
     infinite |-> infinite, value_counts |-> EmptyDict]

ValueColumn(name, dtype, value_counts) ==
    [name |-> name, dtype |-> dtype,
     non_missing |-> SumOver(DOMAIN value_counts, value_counts),
     infinite |-> FALSE, value_counts |-> value_counts]

NoDataset == [n_rows |-> 0, columns |-> <<>>]

\* self.contamination, in percent (the constructor's default)
contamination == 5

\* Lines 45-50
NoAnomalies ==
    [numeric_anomalies |-> <<>>, categorical_anomalies |-> <<>>,
     text_anomalies |-> <<>>, row_anomalies |-> <<>>]

\* {"anomalies": [], "check_result": None}
EmptyDetection == [anomalies |-> <<>>, check_result |-> None]

\* df.select_dtypes(include=...).columns.tolist()
select_dtypes(data, include) ==
    SelectSeq(data.columns, LAMBDA col : col.dtype \in include)

NumberDtypes == {"int64", "float64"}

\* s[:5]
FirstFive(s) == SubSeq(s, 1, IF Len(s) < 5 THEN Len(s) ELSE 5)

\* Mutant of IsolationSeverity: the tiers start at their thresholds.
IsolationSeverity_AtLeast(n, d) ==
    IF 100 * n >= 15 * d THEN "high"
    ELSE IF 100 * n >= 5 * d THEN "medium" ELSE "low"

\* "high" if rate > 0.15 else "medium" if rate > 0.05 else "low", rate = n/d
IsolationSeverity(n, d) ==
    IF 100 * n > 15 * d THEN "high"
    ELSE IF 100 * n > 5 * d THEN "medium" ELSE "low"

\* The columns the loop of lines 107-139 fits a forest on without raising.
NumericFitted(col) == col.non_missing >= 10 /\ ~col.infinite

\* The counts IsolationForest may flag in each fitted column.
MaxAnomalyCount == 4

NumericPredictions(data) ==
    LET numeric_cols == select_dtypes(data, NumberDtypes)
        fitted == {numeric_cols[i].name :
                     i \in {j \in 1..Len(numeric_cols) : NumericFitted(numeric_cols[j])}}
    IN  [fitted -> 0..MaxAnomalyCount]

\* Lines 89-160.  predictions[c] is the number of -1 entries of fit_predict
\* on column c.
detect_numeric_anomalies(data, sklearn, predictions) ==
    LET numeric_cols == select_dtypes(data, NumberDtypes)
        flagged(col) == NumericFitted(col) /\ predictions[col.name] > 0
        finding(col) ==
            [column |-> col.name,
             anomaly_count |-> predictions[col.name],
             anomaly_rate |-> Frac(predictions[col.name], col.non_missing),
             method |-> "IsolationForest"]
        kept == SelectSeq(numeric_cols, flagged)
        found == [i \in 1..Len(kept) |-> finding(kept[i])]
        total_anomaly_count ==
            SumTo([i \in 1..Len(found) |-> found[i].anomaly_count], Len(found))
        anomaly_cols ==
            SelectSeq(found, LAMBDA f :
                100 * f.anomaly_rate.n > 2 * contamination * f.anomaly_rate.d)
        cells == data.n_rows * Len(numeric_cols)
    IN  IF ~sklearn THEN EmptyDetection
        ELSE IF Len(numeric_cols) = 0 \/ data.n_rows < 10 THEN EmptyDetection
        ELSE [anomalies |-> found,
              check_result |->
                [check_id |-> "ml_numeric_anomalies",
                 dimension |-> "anomaly_detection",
                 passed |-> 100 * total_anomaly_count < 10 * cells,
                 severity |-> IsolationSeverity(total_anomaly_count, cells),
                 metrics |->
                   [total_anomalies |-> total_anomaly_count,
                    anomaly_rate |-> Frac(total_anomaly_count, cells),
                    columns_analyzed |-> Len(numeric_cols),
                    columns_with_anomalies |-> Len(anomaly_cols),
                    method |-> "IsolationForest",
                    sample_anomalies |-> FirstFive(found)]]]

\* Line 184: max(2, int(total * 0.01))
rare_threshold(total) == IF total \div 100 > 2 THEN total \div 100 ELSE 2

\* Line 185: value_counts[value_counts < rare_threshold]
rare_values(col) ==
    {v \in DOMAIN col.value_counts :
        col.value_counts[v] < rare_threshold(col.non_missing)}

\* Lines 162-217
detect_categorical_anomalies(data) ==
    LET categorical_cols == select_dtypes(data, {"object", "category"})
        flagged(col) == col.non_missing >= 10 /\ rare_values(col) # {}
        finding(col) ==
            [column |-> col.name,
             rare_value_count |-> SumOver(rare_values(col), col.value_counts),
             rare_unique_values |-> Cardinality(rare_values(col)),
             method |-> "FrequencyAnalysis"]
        kept == SelectSeq(categorical_cols, flagged)
        found == [i \in 1..Len(kept) |-> finding(kept[i])]
        total_rare_count ==
            SumTo([i \in 1..Len(found) |-> found[i].rare_value_count], Len(found))
        cells == data.n_rows * Len(categorical_cols)
    IN  IF Len(categorical_cols) = 0 THEN EmptyDetection
        ELSE IF Len(found) = 0 THEN EmptyDetection
        ELSE [anomalies |-> found,
              check_result |->
                [check_id |-> "ml_categorical_anomalies",
                 dimension |-> "anomaly_detection",
                 passed |-> 100 * total_rare_count < 5 * cells,
                 severity |-> IF 100 * total_rare_count > 10 * cells
                              THEN "medium" ELSE "low",
                 metrics |->
                   [total_rare_values |-> total_rare_count,
                    rare_value_rate |-> Frac(total_rare_count, cells),
                    columns_analyzed |-> Len(categorical_cols),
                    method |-> "FrequencyAnalysis"]]]

\* Sum of count * len(value)^k over the values of a column, k = 1, 2: with
\* n values, mean_len is LenSum/n and std_len^2 (pandas: n - 1 in the
\* denominator) is (n * LenSquares - LenSum^2) / (n * (n - 1)).
LenSum(col) ==
    SumOver(DOMAIN col.value_counts,
            [v \in DOMAIN col.value_counts |-> col.value_counts[v] * Len(v)])

LenSquares(col) ==
    SumOver(DOMAIN col.value_counts,
            [v \in DOMAIN col.value_counts |->
                col.value_counts[v] * Len(v) * Len(v)])

\* Lines 240-243: the number of values with |len - mean_len| > 3 * std_len,
\* 0 when std_len is 0.
unusual_count(col) ==
    LET n == col.non_missing
        s == LenSum(col)
        spread == n * LenSquares(col) - s * s
        unusual == {v \in DOMAIN col.value_counts :
                      (n * Len(v) - s) * (n * Len(v) - s) * (n - 1)
                          > 9 * n * spread}
    IN  IF spread > 0 THEN SumOver(unusual, col.value_counts) ELSE 0

\* Lines 219-268
detect_text_anomalies(data) ==
    LET text_cols == select_dtypes(data, {"object"})
        flagged(col) == col.non_missing >= 10 /\ unusual_count(col) > 0
        finding(col) ==
            [column |-> col.name,
             unusual_length_count |-> unusual_count(col),
             mean_length |-> Frac(LenSum(col), col.non_missing),
             method |-> "LengthStatistics"]
        kept == SelectSeq(text_cols, flagged)
        found == [i \in 1..Len(kept) |-> finding(kept[i])]
    IN  IF Len(text_cols) = 0 THEN EmptyDetection
        ELSE IF Len(found) = 0 THEN EmptyDetection
        ELSE [anomalies |-> found,
              check_result |->
                [check_id |-> "ml_text_anomalies",
                 dimension |-> "anomaly_detection",
                 passed |-> TRUE,
                 severity |-> "low",
                 metrics |->
                   [columns_with_anomalies |-> Len(found),
                    method |-> "LengthStatistics"]]]

\* Lines 292-314: scaling and fitting raise on an infinite value.
RowFitRaises(data) ==
    LET numeric_cols == select_dtypes(data, NumberDtypes)
    IN  \E i \in 1..Len(numeric_cols) : numeric_cols[i].infinite

RowPredictions(data) == {c \in 0..MaxAnomalyCount : c <= data.n_rows}

\* Lines 270-340.  anomaly_count is the number of -1 entries of fit_predict.
detect_row_anomalies(data, sklearn, anomaly_count) ==
    LET numeric_cols == select_dtypes(data, NumberDtypes)
    IN  IF ~sklearn THEN EmptyDetection
        ELSE IF Len(numeric_cols) < 2 \/ data.n_rows < 20 THEN EmptyDetection
        ELSE IF RowFitRaises(data) THEN EmptyDetection
        ELSE [anomalies |->
                <<[type |-> "multivariate_outliers",
                   count |-> anomaly_count,
                   rate |-> Frac(anomaly_count, data.n_rows),
                   features_used |-> [i \in 1..Len(numeric_cols) |->
                                         numeric_cols[i].name],
                   method |-> "IsolationForest_Multivariate"]>>,
              check_result |->
                [check_id |-> "ml_row_anomalies",
                 dimension |-> "anomaly_detection",
                 passed |-> 100 * anomaly_count < 10 * data.n_rows,
                 severity |-> IsolationSeverity(anomaly_count, data.n_rows),
                 metrics |->
                   [anomaly_count |-> anomaly_count,
                    anomaly_rate |-> Frac(anomaly_count, data.n_rows),
                    features_used |-> Len(numeric_cols),
                    method |-> "IsolationForest_Multivariate"]]]

\* Mutant of AppendCheckResult: the CheckResult is appended twice.
AppendCheckResult_Twice(results, detection) ==
    IF detection.check_result = None THEN results
    ELSE Append(Append(results, detection.check_result), detection.check_result)

\* `if result.get("check_result"): check_results.append(...)`
AppendCheckResult(results, detection) ==
    IF detection.check_result = None THEN results
    ELSE Append(results, detection.check_result)

\* Lines 55-58
DetectNumeric ==
    /\ pc = "numeric"
    /\ \E predictions \in NumericPredictions(df) :
         \E numeric_result \in
               {detect_numeric_anomalies(df, sklearn_available, predictions)} :
            /\ anomalies' = [anomalies EXCEPT
                               !.numeric_anomalies = numeric_result.anomalies]
            /\ detect_check_results' =
                   AppendCheckResult(detect_check_results, numeric_result)
    /\ pc' = "categorical"
    /\ UNCHANGED <<check_results, profile, selected_dimensions, dim_index,
                   checks_by_dimension, dimension_scores, dimension_weights,
                   composite_dqs, duration_ms, exception, agents, self,
                   history, df, sklearn_available, detect_result>>

\* Lines 61-64
DetectCategorical ==
    /\ pc = "categorical"
    /\ \E categorical_result \in {detect_categorical_anomalies(df)} :
         /\ anomalies' = [anomalies EXCEPT
                            !.categorical_anomalies = categorical_result.anomalies]
         /\ detect_check_results' =
                AppendCheckResult(detect_check_results, categorical_result)
    /\ pc' = "text"
    /\ UNCHANGED <<check_results, profile, selected_dimensions, dim_index,
                   checks_by_dimension, dimension_scores, dimension_weights,
                   composite_dqs, duration_ms, exception, agents, self,
                   history, df, sklearn_available, detect_result>>

\* Lines 67-70
DetectText ==
    /\ pc = "text"
    /\ \E text_result \in {detect_text_anomalies(df)} :
         /\ anomalies' = [anomalies EXCEPT
                            !.text_anomalies = text_result.anomalies]
         /\ detect_check_results' =
                AppendCheckResult(detect_check_results, text_result)
    /\ pc' = "row"
    /\ UNCHANGED <<check_results, profile, selected_dimensions, dim_index,
                   checks_by_dimension, dimension_scores, dimension_weights,
                   composite_dqs, duration_ms, exception, agents, self,
                   history, df, sklearn_available, detect_result>>

\* Mutant of DetectRow: fillna(median) is applied to the dataset itself.
DetectRow_FillsInPlace ==
    /\ pc = "row"
    /\ \E anomaly_count \in RowPredictions(df) :
         \E row_result \in
               {detect_row_anomalies(df, sklearn_available, anomaly_count)} :
            /\ anomalies' = [anomalies EXCEPT
                               !.row_anomalies = row_result.anomalies]
            /\ detect_check_results' =
                   AppendCheckResult(detect_check_results, row_result)
            /\ df' = IF row_result.check_result = None THEN df
                     ELSE [df EXCEPT !.columns =
                             [i \in 1..Len(df.columns) |->
                                IF df.columns[i].dtype \in NumberDtypes
                                THEN [df.columns[i] EXCEPT !.non_missing = df.n_rows]
                                ELSE df.columns[i]]]
    /\ pc' = "return"
    /\ UNCHANGED <<check_results, profile, selected_dimensions, dim_index,
                   checks_by_dimension, dimension_scores, dimension_weights,
                   composite_dqs, duration_ms, exception, agents, self,
                   history, sklearn_available, detect_result>>

\* Lines 73-76
DetectRow ==
    /\ pc = "row"
    /\ \E anomaly_count \in RowPredictions(df) :
         \E row_result \in
               {detect_row_anomalies(df, sklearn_available, anomaly_count)} :
            /\ anomalies' = [anomalies EXCEPT
                               !.row_anomalies = row_result.anomalies]
            /\ detect_check_results' =
                   AppendCheckResult(detect_check_results, row_result)
    /\ pc' = "return"
    /\ UNCHANGED <<check_results, profile, selected_dimensions, dim_index,
                   checks_by_dimension, dimension_scores, dimension_weights,
                   composite_dqs, duration_ms, exception, agents, self,
                   history, df, sklearn_available, detect_result>>

\* Lines 78-87
ReturnDetect ==
    /\ pc = "return"
    /\ \E ms \in 0..MaxDurationMs :
         detect_result' =
            [anomalies |-> anomalies,
             check_results |-> detect_check_results,
             total_anomalies |->
                 Len(anomalies.numeric_anomalies)
                   + Len(anomalies.categorical_anomalies)
                   + Len(anomalies.text_anomalies)
                   + Len(anomalies.row_anomalies),
             duration_ms |-> ms,
             model |-> "IsolationForest",
             contamination |-> contamination]
    /\ pc' = "done"
    /\ UNCHANGED <<check_results, profile, selected_dimensions, dim_index,
                   checks_by_dimension, dimension_scores, dimension_weights,
                   composite_dqs, duration_ms, exception, agents, self,
                   history, df, sklearn_available, anomalies,
                   detect_check_results>>

NextDetect ==
    DetectNumeric \/ DetectCategorical \/ DetectText \/ DetectRow \/ ReturnDetect

----------------------------------------------------------------------------
(* Inputs.                                                                 *)

\* Profiles: no "columns" key; summed criticality 10 (no boost: Amount 3,
\* currency 3, merchant_id 2 + merchant 2); summed criticality 12 (boost).
ProfileNoColumns == [row_count |-> 500]
ProfileTen    == [row_count |-> 500,
                  columns |-> {ColAmount, ColCurrency, ColMerchantId, ColNotes}]
ProfileTwelve == [row_count |-> 500,
                  columns |-> {ColAmount, ColCurrency, ColMerchantId, ColMCC}]

\* All sequences over S of length at most n.
SeqUpTo(S, n) == UNION {[1..k -> S] : k \in 0..n}

\* Longest check list of a full compute_scores run.
MaxPipelineChecks == 2

PipelineDimensionParts ==
    {EmptyDict, [dimension |-> "completeness"], [dimension |-> "uniqueness"]}

PipelineSeverityParts == {EmptyDict, [severity |-> "critical"]}

\* passed and metrics both absent; a failed check without metrics; a failed
\* check with a rate above 1; a match rate above 1 (an error rate below 0).
PipelineOutcomeParts ==
    {EmptyDict,
     [passed |-> FALSE],
     [passed |-> FALSE, metrics |-> [overall_null_rate |-> Num(150)]],
     [metrics |-> [match_rate |-> Num(150)]]}

\* Checks whose rate field holds no number: null, text, a numeric string.
MalformedChecks ==
    {[dimension |-> "completeness", passed |-> FALSE,
      metrics |-> [overall_null_rate |-> None]],
     [check_id |-> "recon_1", metrics |-> [match_rate |-> Text]],
     [dimension |-> "completeness", severity |-> "low",
      metrics |-> [violation_rate |-> NumText(55)]]}

PipelineChecks ==
    {a @@ b @@ c : a \in PipelineDimensionParts, b \in PipelineSeverityParts,
                   c \in PipelineOutcomeParts}
    \cup MalformedChecks

PipelineProfiles == {ProfileNoColumns, ProfileTwelve}

PipelineSelections ==
    {<<>>, <<"completeness", "unknown">>,
     <<"uniqueness", "timeliness", "completeness">>}

ScoringInstances == {"agent1", "agent2"}

\* The state in which no call has produced anything yet.
Idle ==
    /\ dim_index = 0
    /\ checks_by_dimension = EmptyDict
    /\ dimension_scores = EmptyDict
    /\ dimension_weights = EmptyDict
    /\ composite_dqs = -1
    /\ duration_ms = -1
    /\ exception = "none"
    /\ agents = [a \in ScoringInstances |-> NewAgent]
    /\ history = {}
    /\ anomalies = NoAnomalies
    /\ detect_check_results = <<>>
    /\ detect_result = None

Init ==
    /\ check_results \in SeqUpTo(PipelineChecks, MaxPipelineChecks)
    /\ profile \in PipelineProfiles
    /\ selected_dimensions \in PipelineSelections
    /\ self = "agent1"
    /\ pc = "group"
    /\ df = NoDataset
    /\ sklearn_available = TRUE
    /\ Idle

Spec == Init /\ [][Next]_vars

----------------------------------------------------------------------------
(* _compute_dimension_score called on its own.                             *)

CallDimensionScore ==
    /\ pc = "dimension_call"
    /\ \E dimension \in {selected_dimensions[1]} :
       \E score_result \in {compute_dimension_score(dimension, check_results, profile)} :
           /\ exception' = score_result.raised
           /\ pc' = IF score_result.raised = "none" THEN "done" ELSE "raised"
           /\ dimension_scores' =
                IF score_result.raised = "none"
                THEN [d \in {dimension} |->
                        [score |-> score_result.score,
                         weight |-> score_result.weight,
                         explainability |-> score_result.explainability]]
                ELSE dimension_scores
    /\ UNCHANGED <<check_results, profile, selected_dimensions, dim_index,
                   checks_by_dimension, dimension_weights, composite_dqs,
                   duration_ms, agents, self, history>>
    /\ UNCHANGED detect_vars

\* Longest check list of one dimension.
MaxChecks == 4

DimSeverities == {"critical", "high", "low"}

\* A field _extract_error_rate does not read (the one the ML checks carry), or
\* a null rate of 55%.
DimMetrics == {[anomaly_rate |-> Num(90)], [overall_null_rate |-> Num(55)]}

DimChecks ==
    {[severity |-> s, passed |-> p, metrics |-> m] :
        s \in DimSeverities, p \in BOOLEAN, m \in DimMetrics}

InitDim ==
    /\ check_results \in SeqUpTo(DimChecks, MaxChecks)
    /\ profile = ProfileTen
    /\ selected_dimensions = <<"completeness">>
    /\ self = "agent1"
    /\ pc = "dimension_call"
    /\ df = NoDataset
    /\ sklearn_available = TRUE
    /\ Idle

SpecDim == InitDim /\ [][CallDimensionScore]_vars

----------------------------------------------------------------------------
(* _compute_composite_score called on its own.                             *)

CallCompositeScore ==
    /\ pc = "composite_call"
    /\ composite_dqs' = compute_composite_score(dimension_scores, dimension_weights)
    /\ pc' = "done"
    /\ UNCHANGED <<check_results, profile, selected_dimensions, dim_index,
                   checks_by_dimension, dimension_scores, dimension_weights,
                   duration_ms, exception, agents, self, history>>
    /\ UNCHANGED detect_vars

\* Largest number of dimensions of a dimension-score map.
MaxDims == 3

CompositeDims ==
    {"completeness", "validity", "uniqueness", "timeliness", "consistency"}

CompositeScores == {1000, 2900, 3000, 4500, 9500}

CompositeWeights == {0, 200, 250}

InitComposite ==
    /\ \E D \in SUBSET CompositeDims :
         /\ Cardinality(D) <= MaxDims
         /\ dimension_scores \in [D -> [score : CompositeScores]]
         /\ dimension_weights \in [D -> CompositeWeights]
    /\ check_results = <<>>
    /\ profile = ProfileNoColumns
    /\ selected_dimensions = <<>>
    /\ self = "agent1"
    /\ pc = "composite_call"
    /\ dim_index = 0
    /\ checks_by_dimension = EmptyDict
    /\ composite_dqs = -1
    /\ duration_ms = -1
    /\ exception = "none"
    /\ agents = [a \in ScoringInstances |-> NewAgent]
    /\ df = NoDataset
    /\ sklearn_available = TRUE
    /\ history = {}
    /\ anomalies = NoAnomalies
    /\ detect_check_results = <<>>
    /\ detect_result = None

SpecComposite == InitComposite /\ [][CallCompositeScore]_vars

----------------------------------------------------------------------------
(* Raising one check's error rate: _compute_dimension_score on short lists *)
(* (the comparison with the raised list is made by the claim's formula).   *)

\* Longest check list whose rates are raised one at a time.
MaxMonoChecks == 3

InitMono ==
    /\ check_results \in SeqUpTo(DimChecks, MaxMonoChecks)
    /\ profile = ProfileTen
    /\ selected_dimensions = <<"completeness">>
    /\ self = "agent1"
    /\ pc = "dimension_call"
    /\ df = NoDataset
    /\ sklearn_available = TRUE
    /\ Idle

SpecMono == InitMono /\ [][CallDimensionScore]_vars

----------------------------------------------------------------------------
(* Several compute_scores calls, on either instance.                       *)

\* Number of compute_scores calls of one behaviour.
MaxCalls == 2

RepeatCheckLists ==
    {<<[dimension |-> "completeness", severity |-> "critical", passed |-> FALSE,
        metrics |-> [overall_null_rate |-> Num(55)]]>>,
     <<[dimension |-> "completeness", severity |-> "low", passed |-> TRUE,
        metrics |-> [overall_null_rate |-> Num(5)]],
       [dimension |-> "uniqueness", severity |-> "high", passed |-> FALSE,
        metrics |-> [match_rate |-> Num(90)]]>>}

RepeatSelections == {<<"completeness">>, <<"completeness", "uniqueness">>}

\* agent.compute_scores(check_results, profile, selected_dimensions) is called
\* on one of the instances, once the previous call has returned.
StartCall ==
    /\ pc \in {"idle", "done"}
    /\ Cardinality(history) < MaxCalls
    /\ self' \in ScoringInstances
    /\ check_results' \in RepeatCheckLists
    /\ selected_dimensions' \in RepeatSelections
    /\ pc' = "group"
    /\ dim_index' = 0
    /\ checks_by_dimension' = EmptyDict
    /\ dimension_scores' = EmptyDict
    /\ dimension_weights' = EmptyDict
    /\ composite_dqs' = -1
    /\ duration_ms' = -1
    /\ UNCHANGED <<profile, exception, agents, history>>
    /\ UNCHANGED detect_vars

InitRepeat ==
    /\ check_results = <<>>
    /\ profile = ProfileTwelve
    /\ selected_dimensions = <<>>
    /\ self = "agent1"
    /\ pc = "idle"
    /\ df = NoDataset
    /\ sklearn_available = TRUE
    /\ Idle

NextRepeat == StartCall \/ GroupChecks \/ ScoreDimension \/ ReturnScores

SpecRepeat == InitRepeat /\ [][NextRepeat]_vars

----------------------------------------------------------------------------
(* detect on small datasets.                                               *)

\* value_counts() of columns of ten and more values.
CurrencyCounts == [v \in {"USD", "EUR"} |-> IF v = "USD" THEN 8 ELSE 4]

StatusCounts ==
    [v \in {"ok", "no", "chargeback_reversed"} |->
        IF v = "chargeback_reversed" THEN 1 ELSE 6]

NoteCounts == [v \in {"a", "bb"} |-> IF v = "a" THEN 5 ELSE 4]

DetectDatasets ==
    {NoDataset,
     [n_rows |-> 9,
      columns |-> <<NumericColumn("amount", 9, FALSE),
                    NumericColumn("fee", 9, FALSE),
                    ValueColumn("notes", "object", NoteCounts)>>],
     [n_rows |-> 10,
      columns |-> <<NumericColumn("amount", 9, FALSE),
                    ValueColumn("notes", "object", NoteCounts)>>],
     [n_rows |-> 10,
      columns |-> <<NumericColumn("amount", 10, TRUE)>>],
     [n_rows |-> 12,
      columns |-> <<NumericColumn("amount", 12, FALSE),
                    ValueColumn("currency", "category", CurrencyCounts)>>],
     [n_rows |-> 13,
      columns |-> <<ValueColumn("status", "category", StatusCounts),
                    ValueColumn("currency", "object", CurrencyCounts)>>],
     [n_rows |-> 20,
      columns |-> <<NumericColumn("amount", 20, FALSE),
                    NumericColumn("fee", 12, FALSE),
                    ValueColumn("status", "object", StatusCounts)>>],
     [n_rows |-> 20,
      columns |-> <<NumericColumn("amount", 20, FALSE),
                    NumericColumn("fee", 20, TRUE)>>]}

InitDetect ==
    /\ df \in DetectDatasets
    /\ sklearn_available \in BOOLEAN
    /\ profile = ProfileNoColumns
    /\ check_results = <<>>
    /\ selected_dimensions = <<>>
    /\ self = "agent1"
    /\ pc = "numeric"
    /\ Idle

SpecDetect == InitDetect /\ [][NextDetect]_vars

----------------------------------------------------------------------------
(* _compute_dimension_score around the ceilings' thresholds: error rates    *)
(* of 25% and 90%.                                                          *)

\* Longest check list scored around the thresholds.
MaxCapChecks == 4

CapChecks ==
    [severity : {"critical", "low"},
     passed   : BOOLEAN,
     metrics  : {[overall_null_rate |-> Num(25)], [overall_null_rate |-> Num(90)]}]

InitCaps ==
    /\ check_results \in SeqUpTo(CapChecks, MaxCapChecks)
    /\ profile = ProfileTen
    /\ selected_dimensions = <<"completeness">>
    /\ self = "agent1"
    /\ pc = "dimension_call"
    /\ df = NoDataset
    /\ sklearn_available = TRUE
    /\ Idle

SpecCaps == InitCaps /\ [][CallDimensionScore]_vars

----------------------------------------------------------------------------
(* One report: detect on the dataset, then compute_scores on the check     *)
(* list, each called once with the arguments the caller holds.             *)

\* The caller calls compute_scores once detect has returned.
CallComputeScores ==
    /\ pc = "done"
    /\ detect_result # None
    /\ composite_dqs = -1
    /\ pc' = "group"
    /\ UNCHANGED <<check_results, profile, selected_dimensions, dim_index,
                   checks_by_dimension, dimension_scores, dimension_weights,
                   composite_dqs, duration_ms, exception, agents, self,
                   history>>
    /\ UNCHANGED detect_vars

InitCalls ==
    /\ df \in DetectDatasets
    /\ sklearn_available \in BOOLEAN
    /\ check_results \in RepeatCheckLists
    /\ profile = ProfileTwelve
    /\ selected_dimensions \in RepeatSelections
    /\ self = "agent1"
    /\ pc = "numeric"
    /\ Idle

NextCalls ==
    \/ DetectNumeric \/ DetectCategorical \/ DetectText \/ DetectRow
    \/ ReturnDetect
    \/ CallComputeScores
    \/ GroupChecks \/ ScoreDimension \/ ReturnScores

SpecCalls == InitCalls /\ [][NextCalls]_vars

----------------------------------------------------------------------------
(* _extract_error_rate, read off a dimension of one check (whose weighted  *)
(* error rate is that check's error rate): metrics with any subset of two  *)
(* rate fields and two match-rate fields, each 20% or 150%.                *)

RateMetricFields ==
    {"overall_null_rate", "violation_rate", "match_rate",
     "overall_reconciliation_rate"}

RateMetricValues == {Num(20), Num(150)}

RateChecks ==
    {[severity |-> "high", passed |-> p, metrics |-> m] :
        p \in BOOLEAN,
        m \in UNION {[F -> RateMetricValues] : F \in SUBSET RateMetricFields}}

InitRate ==
    /\ check_results \in {<<c>> : c \in RateChecks}
    /\ profile = ProfileNoColumns
    /\ selected_dimensions = <<"completeness">>
    /\ self = "agent1"
    /\ pc = "dimension_call"
    /\ df = NoDataset
    /\ sklearn_available = TRUE
    /\ Idle

SpecRate == InitRate /\ [][CallDimensionScore]_vars

----------------------------------------------------------------------------
(* _get_dimension_weight, read off a scored dimension: every dimension     *)
(* name, every set of the known column names, one or two checks.           *)

WeightDimensions ==
    {"completeness", "uniqueness", "validity", "consistency", "timeliness",
     "integrity", "reconciliation", "anomaly_detection", "unknown"}

WeightProfiles ==
    {ProfileNoColumns}
    \cup {[row_count |-> 500, columns |-> C] : C \in SUBSET KnownColumns}

WeightCheckLists ==
    {<<[severity |-> "low", passed |-> TRUE, metrics |-> EmptyDict]>>,
     <<[severity |-> "critical", passed |-> FALSE,
        metrics |-> [overall_null_rate |-> Num(90)]],
       [severity |-> "high", passed |-> FALSE, metrics |-> EmptyDict]>>}

InitWeight ==
    /\ check_results \in WeightCheckLists
    /\ profile \in WeightProfiles
    /\ selected_dimensions \in {<<d>> : d \in WeightDimensions}
    /\ self = "agent1"
    /\ pc = "dimension_call"
    /\ df = NoDataset
    /\ sklearn_available = TRUE
    /\ Idle

SpecWeight == InitWeight /\ [][CallDimensionScore]_vars

----------------------------------------------------------------------------
(* detect with its four detector calls (lines 55-76) taken in any order:    *)
(* pc is the set of detectors that have not yet returned.                   *)

DetectorNames == {"numeric", "categorical", "text", "row"}

\* The key of the anomalies map each detector's findings are stored under.
AnomalyKey ==
    [name \in DetectorNames |->
        CASE name = "numeric"     -> "numeric_anomalies"
          [] name = "categorical" -> "categorical_anomalies"
          [] name = "text"        -> "text_anomalies"
          [] name = "row"         -> "row_anomalies"]

\* What the detector called at lines 55, 61, 67 and 73 can return: one
\* outcome for each result of the fits it makes.
DetectorOutcomes(name, data, sklearn) ==
    CASE name = "numeric" ->
             {detect_numeric_anomalies(data, sklearn, predictions) :
                 predictions \in NumericPredictions(data)}
      [] name = "categorical" -> {detect_categorical_anomalies(data)}
      [] name = "text"        -> {detect_text_anomalies(data)}
      [] name = "row" ->
             {detect_row_anomalies(data, sklearn, anomaly_count) :
                 anomaly_count \in RowPredictions(data)}

\* Mutant of DatasetAfter: the row detector fills the missing values of the
\* numeric columns in the dataset itself.
DatasetAfter_FillsInPlace(name, data) ==
    IF name = "row" /\ Len(select_dtypes(data, NumberDtypes)) >= 2
                    /\ data.n_rows >= 20
    THEN [data EXCEPT !.columns =
            [i \in 1..Len(data.columns) |->
                IF data.columns[i].dtype \in NumberDtypes
                THEN [data.columns[i] EXCEPT !.non_missing = data.n_rows]
                ELSE data.columns[i]]]
    ELSE data

\* The dataset after a detector has returned: the detectors work on
\* df[col].dropna() (line 108), on value_counts() and str.len() of a column
\* (lines 180, 236) and on df[numeric_cols].copy() (lines 286-287).
DatasetAfter(name, data) == data

\* Lines 80-87
ConsolidatedResult(found, results, ms) ==
    [anomalies |-> found,
     check_results |-> results,
     total_anomalies |->
         Len(found.numeric_anomalies) + Len(found.categorical_anomalies)
           + Len(found.text_anomalies) + Len(found.row_anomalies),
     duration_ms |-> ms,
     model |-> "IsolationForest",
     contamination |-> contamination]

\* One of lines 55-58, 61-64, 67-70, 73-76
RunDetector(name) ==
    /\ name \in pc
    /\ \E result \in DetectorOutcomes(name, df, sklearn_available) :
         /\ anomalies' = [anomalies EXCEPT
                            ![AnomalyKey[name]] = result.anomalies]
         /\ detect_check_results' =
                AppendCheckResult(detect_check_results, result)
    /\ df' = DatasetAfter(name, df)
    /\ pc' = pc \ {name}
    /\ UNCHANGED <<check_results, profile, selected_dimensions, dim_index,
                   checks_by_dimension, dimension_scores, dimension_weights,
                   composite_dqs, duration_ms, exception, agents, self,
                   history, sklearn_available, detect_result>>

\* Lines 78-87, reached once every detector has returned
ReturnOrder ==
    /\ pc = {}
    /\ detect_result = None
    /\ \E ms \in 0..MaxDurationMs :
         detect_result' = ConsolidatedResult(anomalies, detect_check_results, ms)
    /\ UNCHANGED <<check_results, profile, selected_dimensions, pc, dim_index,
                   checks_by_dimension, dimension_scores, dimension_weights,
                   composite_dqs, duration_ms, exception, agents, self,
                   history, df, sklearn_available, anomalies,
                   detect_check_results>>

InitOrder ==
    /\ df \in DetectDatasets
    /\ sklearn_available \in BOOLEAN
    /\ profile = ProfileNoColumns
    /\ check_results = <<>>
    /\ selected_dimensions = <<>>
    /\ self = "agent1"
    /\ pc = DetectorNames
    /\ Idle

NextOrder == (\E name \in DetectorNames : RunDetector(name)) \/ ReturnOrder

SpecOrder == InitOrder /\ [][NextOrder]_vars

----------------------------------------------------------------------------
(* ExplainerAgent (explainer_agent.py).  The provider's answer to the one   *)
(* request of a call is an input of the call: the request raises, returns   *)
(* no response (Gemini: a falsy response, OpenAI: no choices), a response   *)
(* without content (text or message content None), an empty text or a text. *)

\* self.provider = None
NoProvider == "None"

\* Lines 23-57.  use_llm is the constructor's argument ("None" by default);
\* a key is set when the environment variable is not blank; a library
\* imports and configures, or raises.
ExplainerInit(use_llm, gemini_key, openai_key, gemini_imports, openai_imports) ==
    LET requested == IF use_llm = "None" THEN gemini_key \/ openai_key
                     ELSE use_llm = "True"
    IN  IF ~requested
        THEN [name |-> "ExplainerAgent", use_llm |-> FALSE, provider |-> NoProvider]
        ELSE IF gemini_key
        THEN IF gemini_imports
             THEN [name |-> "ExplainerAgent", use_llm |-> TRUE, provider |-> "gemini"]
             ELSE [name |-> "ExplainerAgent", use_llm |-> FALSE, provider |-> NoProvider]
        ELSE IF openai_key
        THEN IF openai_imports
             THEN [name |-> "ExplainerAgent", use_llm |-> TRUE, provider |-> "openai"]
             ELSE [name |-> "ExplainerAgent", use_llm |-> FALSE, provider |-> NoProvider]
        ELSE [name |-> "ExplainerAgent", use_llm |-> TRUE, provider |-> NoProvider]

ProviderResponses == {"raises", "no_response", "no_content", "empty_text", "text"}

\* [c for c in check_results if not c.get("passed", True)]
failing_checks(checks) == SelectSeq(checks, LAMBDA c : ~Get(c, "passed", TRUE))

\* Lines 340-367: the risk level for a composite score in hundredths.
assess_business_impact(score) ==
    IF score >= 9000 THEN "LOW"
    ELSE IF score >= 7000 THEN "MEDIUM"
    ELSE IF score >= 5000 THEN "HIGH" ELSE "CRITICAL"

\* Lines 203-246: what the summary text is composed from.
explain_with_stub(score, checks) ==
    LET failing == failing_checks(checks)
        with_severity(s) ==
            Len(SelectSeq(failing, LAMBDA c : Get(c, "severity", "") = s))
    IN  [summary |->
            [quality_status |-> IF score >= 8000 THEN "GOOD"
                                ELSE IF score >= 6000 THEN "FAIR" ELSE "POOR",
             critical_count |-> with_severity("critical"),
             high_count |-> with_severity("high"),
             dimensions |-> {DimensionOf(failing[i]) : i \in 1..Len(failing)}],
         business_impact |-> assess_business_impact(score),
         generated_by |-> "deterministic_stub"]

\* What the two provider paths return on a text (lines 163-169, 190-196).
ProviderNarrative(score, response, model_name) ==
    [summary |-> [response_text |-> response],
     business_impact |-> assess_business_impact(score),
     generated_by |-> model_name]

\* Lines 88-115: `if response and response.text` holds on a text only;
\* every exception is caught.
explain_with_gemini(score, checks, response) ==
    IF response = "text"
    THEN ProviderNarrative(score, response, "gemini-1.5-flash")
    ELSE explain_with_stub(score, checks)

\* Lines 172-201: `if response.choices` holds once there is a choice;
\* text.strip() raises on a content of None, which is caught, and returns ""
\* on an empty content.
explain_with_openai(score, checks, response) ==
    IF response \in {"text", "empty_text"}
    THEN ProviderNarrative(score, response, "gpt-3.5-turbo")
    ELSE explain_with_stub(score, checks)

\* Lines 59-86
Explain ==
    /\ pc = "explain"
    /\ \E response \in ProviderResponses :
       \E ms \in 0..MaxDurationMs :
       \E agent \in {agents[self]} :
       \E narrative \in
            {IF agent.use_llm
             THEN IF agent.provider = "gemini"
                  THEN explain_with_gemini(composite_dqs, check_results, response)
                  ELSE IF agent.provider = "openai"
                  THEN explain_with_openai(composite_dqs, check_results, response)
                  ELSE explain_with_stub(composite_dqs, check_results)
             ELSE explain_with_stub(composite_dqs, check_results)} :
          history' = history \cup
             {[call |-> Cardinality(history) + 1,
               instance |-> self,
               args |-> <<composite_dqs, check_results, profile>>,
               response |-> response,
               result |->
                  [summary |-> narrative.summary,
                   business_impact |-> narrative.business_impact,
                   generated_by |-> narrative.generated_by,
                   duration_ms |-> ms,
                   mode |-> IF agent.use_llm THEN agent.provider ELSE "stub",
                   llm_enabled |-> agent.use_llm]]}
    /\ pc' = "done"
    /\ UNCHANGED <<check_results, profile, selected_dimensions, dim_index,
                   checks_by_dimension, dimension_scores, dimension_weights,
                   composite_dqs, duration_ms, exception, agents, self>>
    /\ UNCHANGED detect_vars

\* The composite scores handed to explain, in hundredths: around the
\* thresholds of the stub's status and of the risk level.
ExplainScores == {4999, 5000, 5999, 6000, 7000, 7999, 8000, 9000}

ExplainChecks ==
    {[check_id |-> "completeness_null", dimension |-> "completeness",
      severity |-> "critical", passed |-> FALSE],
     [check_id |-> "uniqueness_duplicates", dimension |-> "uniqueness",
      severity |-> "high", passed |-> FALSE],
     [check_id |-> "validity_amount", dimension |-> "validity",
      severity |-> "low", passed |-> TRUE]}

InitExplain ==
    /\ \E use_llm \in {"None", "True", "False"} :
       \E gemini_key \in BOOLEAN, openai_key \in BOOLEAN :
       \E gemini_imports \in BOOLEAN, openai_imports \in BOOLEAN :
          agents = [a \in {"explainer"} |->
                      ExplainerInit(use_llm, gemini_key, openai_key,
                                    gemini_imports, openai_imports)]
    /\ self = "explainer"
    /\ composite_dqs \in ExplainScores
    /\ check_results \in SeqUpTo(ExplainChecks, MaxPipelineChecks)
    /\ profile = ProfileTwelve
    /\ selected_dimensions = <<>>
    /\ pc = "explain"
    /\ dim_index = 0
    /\ checks_by_dimension = EmptyDict
    /\ dimension_scores = EmptyDict
    /\ dimension_weights = EmptyDict
    /\ duration_ms = -1
    /\ exception = "none"
    /\ history = {}
    /\ df = NoDataset
    /\ sklearn_available = TRUE
    /\ anomalies = NoAnomalies
    /\ detect_check_results = <<>>
    /\ detect_result = None

SpecExplain == InitExplain /\ [][Explain]_vars

----------------------------------------------------------------------------
(* detect followed by compute_scores on the CheckResults detect returned,   *)
(* with anomaly_detection as the only selected dimension.                   *)

\* compute_scores(check_results, profile, selected_dimensions) is called with
\* the check_results of the dictionary detect returned.
ScoreDetected ==
    /\ pc = "done"
    /\ detect_result # None
    /\ composite_dqs = -1
    /\ check_results' = detect_result.check_results
    /\ selected_dimensions' = <<"anomaly_detection">>
    /\ pc' = "group"
    /\ UNCHANGED <<profile, dim_index, checks_by_dimension, dimension_scores,
                   dimension_weights, composite_dqs, duration_ms, exception,
                   agents, self, history>>
    /\ UNCHANGED detect_vars

NextAnomalyScore ==
    \/ DetectNumeric \/ DetectCategorical \/ DetectText \/ DetectRow
    \/ ReturnDetect
    \/ ScoreDetected
    \/ GroupChecks \/ ScoreDimension \/ ReturnScores

SpecAnomalyScore == InitDetect /\ [][NextAnomalyScore]_vars

----------------------------------------------------------------------------
(* Claims.                                                                 *)

InRange(x) == 0 <= x /\ x <= 10000

\* The error rate _extract_error_rate derives for a well-formed check.
DerivedRate(check) == extract_error_rate(check).rate

Failed(check) == ~Get(check, "passed", TRUE)

CriticalFailures(checks) ==
    Cardinality({i \in 1..Len(checks) :
                    Failed(checks[i]) /\ Get(checks[i], "severity", "medium") = "critical"})

FailingRates(checks) ==
    {DerivedRate(checks[i]) : i \in {j \in 1..Len(checks) : Failed(checks[j])}}

\* C1: every per-dimension score compute_scores has produced, and the
\* composite_dqs it returns, lie in [0, 100], whatever the severities, pass
\* flags and rates (also rates outside [0, 1]) and whatever the selection.
C1_ScoresInRange ==
    /\ \A d \in DOMAIN dimension_scores : InRange(dimension_scores[d].score)
    /\ pc = "done" => InRange(composite_dqs)

\* C1 witness: a finished run in which a scored dimension holds a check with
\* an error rate below 0, and the clamp gave that dimension exactly 100.
C1_Witness ==
    /\ pc = "done"
    /\ \E d \in DOMAIN dimension_scores \cap DOMAIN checks_by_dimension :
         /\ \E i \in 1..Len(checks_by_dimension[d]) :
                DerivedRate(checks_by_dimension[d][i]) < 0
         /\ dimension_scores[d].score = 10000

\* C2: at least three failed critical checks and a largest failing error rate
\* above 50% force the dimension score to 30 or less, whatever the other
\* checks of the dimension are.
C2_CriticalDominance ==
    (/\ pc = "done"
     /\ CriticalFailures(check_results) >= 3
     /\ \E r \in FailingRates(check_results) : r > 50)
    => dimension_scores["completeness"].score <= 3000

\* C2 witness: three failed critical checks with a failing rate above 50%,
\* a fourth check that passed, a weighted error rate so low that the
\* uncapped score would be above 30, and a score of at most 30.
C2_Witness ==
    /\ pc = "done"
    /\ Len(check_results) = 4
    /\ CriticalFailures(check_results) = 3
    /\ \E r \in FailingRates(check_results) : r > 50
    /\ \E i \in 1..4 : ~Failed(check_results[i])
    /\ dimension_scores["completeness"].explainability.weighted_error_rate < 5000
    /\ dimension_scores["completeness"].score <= 3000

\* The list `checks` with the error rate of check i set to r (severity, pass
\* flag and the other checks unchanged).
WithRate(checks, i, r) ==
    [checks EXCEPT ![i] = [@ EXCEPT !.metrics = [overall_null_rate |-> Num(r)]]]

RaisedRates == {25, 35, 55, 90, 150}

\* C4: raising the error rate of one check, everything else unchanged, never
\* raises the dimension score.
C4_Monotone ==
    pc = "done" =>
        \A i \in 1..Len(check_results) : \A r \in RaisedRates :
            r > DerivedRate(check_results[i]) =>
                compute_dimension_score("completeness",
                                        WithRate(check_results, i, r), profile).score
                    <= dimension_scores["completeness"].score

\* C4 witness: a scored list of three checks in which raising one failed
\* critical check's rate lowers the score strictly.
C4_Witness ==
    /\ pc = "done"
    /\ Len(check_results) = 3
    /\ \E i \in 1..3 : \E r \in RaisedRates :
         /\ Failed(check_results[i])
         /\ check_results[i].severity = "critical"
         /\ r > DerivedRate(check_results[i])
         /\ compute_dimension_score("completeness",
                                    WithRate(check_results, i, r), profile).score
               < dimension_scores["completeness"].score

\* C5: a selected dimension without any check in the input scores exactly
\* 100 with weight exactly 1.0, whatever its name and the profile.
C5_VacuousDimension ==
    \A d \in DOMAIN dimension_scores :
        (\A i \in 1..Len(check_results) : DimensionOf(check_results[i]) # d)
        => /\ dimension_scores[d].score = 10000
           /\ dimension_scores[d].weight = 100
           /\ dimension_weights[d] = 100

\* C5 witness: a finished run under the profile that boosts the weights, in
\* which uniqueness (base weight 3.0) has no check and weight 1.0, while
\* completeness has checks and the boosted weight 2.4.
C5_Witness ==
    /\ pc = "done"
    /\ profile = ProfileTwelve
    /\ "uniqueness" \in DOMAIN dimension_scores
    /\ "uniqueness" \notin DOMAIN checks_by_dimension
    /\ dimension_weights["uniqueness"] = 100
    /\ "completeness" \in DOMAIN checks_by_dimension
    /\ dimension_weights["completeness"] = 240

\* C6: two compute_scores calls with identical arguments, on the same or on
\* different instances and after any earlier calls, return the same dimension
\* scores, dimension weights and composite_dqs.
C6_Deterministic ==
    \A h1, h2 \in history : h1.args = h2.args => h1.result = h2.result

\* C6 witness: two completed calls with identical arguments on different
\* instances, the checks having a positive error rate.
C6_Witness ==
    \E h1, h2 \in history :
        /\ h1.call < h2.call
        /\ h1.args = h2.args
        /\ h1.instance # h2.instance
        /\ h1.result.composite_dqs < 10000

\* C7: compute_scores never raises on a check with missing or malformed
\* fields (the original claim; the code raises on a non-numeric rate value).
C7_NeverRaises == pc # "raised" /\ exception = "none"

\* weighted_avg and min_score of the scored map, and the claim's precondition.
C3_Avg == WeightedAverage(dimension_scores, dimension_weights)

C3_Min == MinScore(dimension_scores)

C3_Case ==
    /\ pc = "done"
    /\ DOMAIN dimension_scores # {}
    /\ \A d \in DOMAIN dimension_scores : dimension_weights[d] > 0
    /\ C3_Min < 2000

\* C3 (as stated): with positive weights and a dimension below 20, the
\* composite is at most 0.3*weighted_avg + 0.7*min_score and at most 30.
C3_Original ==
    C3_Case =>
        /\ 10 * C3_Avg.d * composite_dqs <= 3 * C3_Avg.n + 7 * C3_Min * C3_Avg.d
        /\ composite_dqs <= 3000

\* C3 (amended): with positive weights and a dimension below 20, the
\* composite, which is rounded to two decimals, exceeds
\* 0.3*weighted_avg + 0.7*min_score by at most 0.005, and is at most 30.
C3_BlendBound ==
    C3_Case =>
        /\ 10 * C3_Avg.d * composite_dqs
              <= 3 * C3_Avg.n + 7 * C3_Min * C3_Avg.d + 5 * C3_Avg.d
        /\ composite_dqs <= 3000

\* C3 witness: uniqueness at 10 among two dimensions at 95, positive
\* weights: the weighted mean is above 60, the composite below 30.
C3_Witness ==
    /\ C3_Case
    /\ Cardinality(DOMAIN dimension_scores) = 3
    /\ "uniqueness" \in DOMAIN dimension_scores
    /\ \A d \in DOMAIN dimension_scores :
         dimension_scores[d].score = IF d = "uniqueness" THEN 1000 ELSE 9500
    /\ C3_Avg.n > 6000 * C3_Avg.d
    /\ composite_dqs < 3000

\* C8: the degenerate inputs give the neutral results: an empty
\* dimension-score map gives composite 0, and so does a map whose weights
\* sum to zero (the original claim; the code blends a zero average with the
\* lowest score and returns 0.7 * min_score).
C8_NeutralComposite ==
    pc = "done" =>
        /\ DOMAIN dimension_scores = {} => composite_dqs = 0
        /\ SumOver(DOMAIN dimension_scores, dimension_weights) = 0
              => composite_dqs = 0

\* The detectors' applicability to df, as the claim lists it.
NumericInapplicable ==
    LET numeric_cols == select_dtypes(df, {"int64", "float64"})
    IN  \/ ~sklearn_available
        \/ Len(numeric_cols) = 0
        \/ df.n_rows < 10
        \/ \A i \in 1..Len(numeric_cols) :
              numeric_cols[i].non_missing < 10 \/ numeric_cols[i].infinite

CategoricalInapplicable ==
    LET cols == select_dtypes(df, {"object", "category"})
    IN  \A i \in 1..Len(cols) : cols[i].non_missing < 10

TextInapplicable ==
    LET cols == select_dtypes(df, {"object"})
    IN  \A i \in 1..Len(cols) : cols[i].non_missing < 10

RowInapplicable ==
    LET numeric_cols == select_dtypes(df, {"int64", "float64"})
    IN  \/ ~sklearn_available
        \/ Len(numeric_cols) < 2
        \/ df.n_rows < 20
        \/ \E i \in 1..Len(numeric_cols) : numeric_cols[i].infinite

Emitted(check_id) ==
    \E i \in 1..Len(detect_result.check_results) :
        detect_result.check_results[i].check_id = check_id

\* C9: a detector that is unavailable, inapplicable or fails internally
\* (library missing, no column of its type, too few rows or too few
\* non-missing values per column, fit raising) contributes an empty finding
\* list and no CheckResult to what detect returns (the original claim; the
\* numeric detector emits ml_numeric_anomalies once the dataset has ten rows
\* and a numeric column, even if it fitted no column).
C9_DegradesToEmpty ==
    pc = "done" =>
        /\ NumericInapplicable =>
              /\ detect_result.anomalies.numeric_anomalies = <<>>
              /\ ~Emitted("ml_numeric_anomalies")
        /\ CategoricalInapplicable =>
              /\ detect_result.anomalies.categorical_anomalies = <<>>
              /\ ~Emitted("ml_categorical_anomalies")
        /\ TextInapplicable =>
              /\ detect_result.anomalies.text_anomalies = <<>>
              /\ ~Emitted("ml_text_anomalies")
        /\ RowInapplicable =>
              /\ detect_result.anomalies.row_anomalies = <<>>
              /\ ~Emitted("ml_row_anomalies")

\* The fields _extract_error_rate recognises, as the specification lists them.
RecognisedFields ==
    {"overall_null_rate", "overall_duplicate_rate", "overall_invalid_rate",
     "inconsistent_rate", "violation_rate", "excessive_delay_rate",
     "match_rate", "overall_reconciliation_rate"}

C10_Case ==
    /\ pc = "done"
    /\ Len(check_results) > 0
    /\ \A i \in 1..Len(check_results) :
         /\ check_results[i].passed
         /\ DOMAIN check_results[i].metrics \cap RecognisedFields = {}

\* C10: a dimension all of whose checks passed and carry no recognised rate
\* or match-rate field scores exactly 100, for any number of checks and any
\* severities.
C10_CleanDimension ==
    C10_Case => dimension_scores["completeness"].score = 10000

\* C10 witness: four passed checks without recognised fields (they carry
\* anomaly_rate), of at least two severities, one of them critical, and a
\* score of 100.
C10_Witness ==
    /\ C10_Case
    /\ Len(check_results) = 4
    /\ \E i, j \in 1..4 :
         /\ check_results[i].severity = "critical"
         /\ check_results[j].severity # "critical"
         /\ "anomaly_rate" \in DOMAIN check_results[i].metrics
    /\ dimension_scores["completeness"].score = 10000

\* Scenario B's check list.
ScenarioB ==
    <<[severity |-> "critical", passed |-> FALSE,
       metrics |-> [overall_null_rate |-> Num(90)]]>>

\* C11: a dimension whose only check is critical, failed and has
\* overall_null_rate 0.9 records a weighted error rate of 0.9, which gives a
\* base score of 100 * (1 - 0.9) = 10, and its final score is at most 30.
C11_ScenarioB ==
    (pc = "done" /\ check_results = ScenarioB) =>
        /\ dimension_scores["completeness"].explainability.weighted_error_rate = 9000
        /\ dimension_scores["completeness"].explainability.critical_failures = 1
        /\ dimension_scores["completeness"].score <= 3000

\* C11 witness: Scenario B has been scored, and the score is 7.0 (base 10,
\* under every ceiling, times 0.7 because the only check failed).
C11_Witness ==
    /\ pc = "done"
    /\ check_results = ScenarioB
    /\ dimension_scores["completeness"].score = 700

\* C15: with a failed critical check and a largest failing error rate above
\* 20%, the dimension score is at most 65 (the original claim; the code
\* applies no ceiling while the largest failing rate is at most 30%).
C15_CeilingAboveTwenty ==
    (/\ pc = "done"
     /\ CriticalFailures(check_results) >= 1
     /\ \E r \in FailingRates(check_results) : r > 20)
    => dimension_scores["completeness"].score <= 6500

DetectorCheckIds ==
    {"ml_numeric_anomalies", "ml_categorical_anomalies", "ml_text_anomalies",
     "ml_row_anomalies"}

\* C12: the check_results list detect builds and returns holds at most one
\* CheckResult per detector (at most four, with pairwise distinct check_ids
\* among the four detectors' ids), each with dimension anomaly_detection.
C12_OnePerDetector ==
    /\ Len(detect_check_results) <= 4
    /\ \A i \in 1..Len(detect_check_results) :
         /\ detect_check_results[i].check_id \in DetectorCheckIds
         /\ detect_check_results[i].dimension = "anomaly_detection"
         /\ \A j \in 1..Len(detect_check_results) :
              detect_check_results[i].check_id = detect_check_results[j].check_id
                  => i = j
    /\ pc = "done" => detect_result.check_results = detect_check_results

\* C12 witness: detect has returned four CheckResults, one of each detector.
C12_Witness ==
    /\ pc = "done"
    /\ Len(detect_result.check_results) = 4
    /\ {detect_result.check_results[i].check_id : i \in 1..4} = DetectorCheckIds

\* The number of checks the dimension scorer consumed for dimension d of the
\* result (a dimension scored without checks records no total_checks).
Consumed(d) ==
    IF "total_checks" \in DOMAIN dimension_scores[d].explainability
    THEN dimension_scores[d].explainability.total_checks ELSE 0

\* Check i of the input is among the checks scored into dimension d.
Contributes(i, d) ==
    /\ d \in DOMAIN dimension_scores
    /\ d \in DOMAIN checks_by_dimension
    /\ Consumed(d) = Len(checks_by_dimension[d])
    /\ \E k \in 1..Len(checks_by_dimension[d]) :
         checks_by_dimension[d][k] = check_results[i]

Selected(d) == \E k \in 1..Len(selected_dimensions) : selected_dimensions[k] = d

\* C13 (as stated): in one compute_scores run every check of the input
\* contributes to the score of exactly one dimension of the result, for any
\* selected_dimensions.
C13_Original ==
    pc = "done" =>
        \A i \in 1..Len(check_results) :
            Cardinality({d \in DOMAIN dimension_scores : Contributes(i, d)}) = 1

\* C13 (amended): in one compute_scores run every check of the input
\* contributes to the score of its own dimension and of no other when that
\* dimension is selected, and to no score at all when it is not; each
\* dimension of the result consumed exactly the input's checks of that
\* dimension.
C13_ConsumedByOwnDimension ==
    pc = "done" =>
        /\ \A i \in 1..Len(check_results) :
             {d \in DOMAIN dimension_scores : Contributes(i, d)}
                 = IF Selected(DimensionOf(check_results[i]))
                   THEN {DimensionOf(check_results[i])} ELSE {}
        /\ \A d \in DOMAIN dimension_scores :
             Consumed(d) = Cardinality({i \in 1..Len(check_results) :
                                           DimensionOf(check_results[i]) = d})

\* C13 witness: a finished run over two checks, one of a selected dimension
\* (consumed once, by completeness) and one of a dimension that is not
\* selected (consumed by none), next to a selected dimension without checks.
C13_Witness ==
    /\ pc = "done"
    /\ Len(check_results) = 2
    /\ selected_dimensions = <<"completeness", "unknown">>
    /\ DimensionOf(check_results[1]) = "uniqueness"
    /\ DimensionOf(check_results[2]) = "completeness"
    /\ Consumed("completeness") = 1
    /\ Consumed("unknown") = 0
    /\ \A d \in DOMAIN dimension_scores : ~Contributes(1, d)

\* C14: no step of detect or of compute_scores changes an argument: the
\* check_results list with its CheckResults and their metrics, the profile,
\* the selected_dimensions list and the dataset keep their values; and what
\* a call returns is built by that call (it is set once, at the return).
C14_InputsUnchanged ==
    [][/\ check_results' = check_results
       /\ profile' = profile
       /\ selected_dimensions' = selected_dimensions
       /\ df' = df
       /\ detect_result' # detect_result => (detect_result = None /\ pc = "return")
       /\ composite_dqs' # composite_dqs => (composite_dqs = -1 /\ pc = "score")]_vars

\* C14 witness: both calls have returned, on a twenty-row dataset with
\* missing numeric values that the row detector filled (in its copy) before
\* fitting, and on a non-empty check list.
C14_Witness ==
    /\ pc = "done"
    /\ detect_result # None
    /\ composite_dqs >= 0
    /\ Len(check_results) = 2
    /\ df.n_rows = 20
    /\ \E i \in 1..Len(df.columns) :
         df.columns[i].dtype = "float64" /\ df.columns[i].non_missing < df.n_rows
    /\ detect_result.anomalies.row_anomalies # <<>>

\* The reference computation of the composite, step by step, on the scored
\* map (values in hundredths, as fractions).
C16_Dims == DOMAIN dimension_scores

C16_TotalWeight ==
    SumOver(C16_Dims, [d \in C16_Dims |-> Get(dimension_weights, d, 100)])

C16_Average ==
    IF C16_TotalWeight = 0 THEN Frac(0, 1)
    ELSE Frac(SumOver(C16_Dims,
                      [d \in C16_Dims |->
                          dimension_scores[d].score * Get(dimension_weights, d, 100)]),
              C16_TotalWeight)

C16_Lowest ==
    CHOOSE m \in {dimension_scores[d].score : d \in C16_Dims} :
        \A d \in C16_Dims : m <= dimension_scores[d].score

C16_Below50 == {d \in C16_Dims : dimension_scores[d].score < 5000}

C16_CriticalBelow60 ==
    {d \in C16_Dims \cap {"completeness", "validity", "uniqueness"} :
        dimension_scores[d].score < 6000}

C16_Ceiling ==
    IF C16_Below50 = {} THEN C16_Average
    ELSE IF C16_Lowest < 2000 THEN FracMin(C16_Average, Frac(3000, 1))
    ELSE IF C16_Lowest < 4000 THEN FracMin(C16_Average, Frac(4500, 1))
    ELSE FracMin(C16_Average, Frac(5500, 1))

C16_Penalty ==
    LET k == Cardinality(C16_CriticalBelow60)
        c == C16_Ceiling
    IN  IF k >= 3 THEN Frac(c.n * 50, c.d * 100)
        ELSE IF k = 2 THEN Frac(c.n * 65, c.d * 100)
        ELSE IF k = 1 THEN Frac(c.n * 80, c.d * 100)
        ELSE c

C16_Blend ==
    LET c == C16_Penalty
    IN  IF C16_Lowest < 3000
        THEN Frac(3 * c.n + 7 * C16_Lowest * c.d, 10 * c.d)
        ELSE IF C16_Lowest < 5000 /\ Cardinality(C16_Below50) >= 2
        THEN Frac(c.n + C16_Lowest * c.d, 2 * c.d)
        ELSE c

C16_Reference == FracMax(Frac(0, 1), FracMin(Frac(10000, 1), C16_Blend))

C17_Rate == dimension_scores["completeness"].explainability.weighted_error_rate

C17_Metrics == check_results[1].metrics

\* The rate the claim's priority gives, in percent: the first explicit rate
\* field, else one minus the first match-rate field, else 5% if failed, else 0.
C17_Expected ==
    IF "overall_null_rate" \in DOMAIN C17_Metrics
    THEN C17_Metrics["overall_null_rate"].val
    ELSE IF "violation_rate" \in DOMAIN C17_Metrics
    THEN C17_Metrics["violation_rate"].val
    ELSE IF "match_rate" \in DOMAIN C17_Metrics
    THEN 100 - C17_Metrics["match_rate"].val
    ELSE IF "overall_reconciliation_rate" \in DOMAIN C17_Metrics
    THEN 100 - C17_Metrics["overall_reconciliation_rate"].val
    ELSE IF ~check_results[1].passed THEN 5 ELSE 0

\* C17: the error rate derived for a check lies in [0, 1] and follows the
\* priority explicit rate field, inverted match-rate field, 0.05 if failed,
\* 0 (the original claim; the code returns a field's value as it is, also
\* when it lies outside [0, 1]).
C17_RateInUnitInterval ==
    pc = "done" =>
        /\ C17_Rate = 100 * C17_Expected
        /\ 0 <= C17_Rate /\ C17_Rate <= 10000

\* The base table of the claim, in hundredths.
C18_Base(dimension) ==
    IF dimension \in {"uniqueness", "reconciliation"} THEN 300
    ELSE IF dimension \in {"validity", "consistency", "integrity"} THEN 250
    ELSE 200

\* The criticality the keyword matches of one column name sum to:
\* "Amount" amount 3; "currency" currency 3; "txn_id" txn_id 3;
\* "merchant_id" merchant_id 2 + merchant 2; "MCC" mcc 2; "notes" none.
C18_Matches(col_name) ==
    CASE col_name = ColAmount     -> 3
      [] col_name = ColCurrency   -> 3
      [] col_name = ColTxnId      -> 3
      [] col_name = ColMerchantId -> 4
      [] col_name = ColMCC        -> 2
      [] col_name = ColNotes      -> 0

C18_Summed ==
    IF "columns" \in DOMAIN profile
    THEN SumOver(profile.columns, [c \in profile.columns |-> C18_Matches(c)])
    ELSE 0

\* C18: a dimension with at least one check gets the base-table weight,
\* times 1.2 exactly when the summed criticality of the keyword matches over
\* the profile's column names is above 10; the weight is positive and does
\* not depend on the checks.
C18_Weight ==
    pc = "done" =>
        /\ dimension_scores[selected_dimensions[1]].weight =
              IF C18_Summed > 10
              THEN (C18_Base(selected_dimensions[1]) * 12) \div 10
              ELSE C18_Base(selected_dimensions[1])
        /\ dimension_scores[selected_dimensions[1]].weight > 0

\* C18 witness: reconciliation scored under the columns Amount, currency,
\* merchant_id, notes, whose criticality sums to exactly 10: weight 3.0, not
\* boosted.
C18_Witness ==
    /\ pc = "done"
    /\ selected_dimensions = <<"reconciliation">>
    /\ profile = ProfileTen
    /\ C18_Summed = 10
    /\ Len(check_results) = 2
    /\ dimension_scores["reconciliation"].weight = 300

\* The score of the scored check list up to the ceilings: the base score
\* 100 * (1 - weighted error rate), not below 0, under the ceiling of the
\* critical failures (no ceiling when no check failed).
C19_WeightedRate ==
    LET n == Len(check_results)
    IN  Frac(SumTo([i \in 1..n |->
                      DerivedRate(check_results[i])
                        * severity_weights(check_results[i].severity)], n),
             100 * SumTo([i \in 1..n |->
                            severity_weights(check_results[i].severity)], n))

C19_Capped ==
    CHOOSE capped \in
        {IF rates = {} THEN base
         ELSE ApplyCriticalCaps(base, CriticalFailures(check_results), MaxOf(rates)) :
            base \in {FracMax(Frac(0, 1), Frac(100 * (rate.d - rate.n), rate.d)) :
                         rate \in {C19_WeightedRate}},
            rates \in {FailingRates(check_results)}} : TRUE

C19_Failed == Cardinality({i \in 1..Len(check_results) : Failed(check_results[i])})

\* The multiplier of the claim, in percent.
C19_Multiplier ==
    IF 2 * C19_Failed > Len(check_results) THEN 70
    ELSE IF 10 * C19_Failed > 3 * Len(check_results) THEN 85
    ELSE 100

C20_NumericRate ==
    LET found == anomalies.numeric_anomalies
    IN  Frac(SumTo([i \in 1..Len(found) |-> found[i].anomaly_count], Len(found)),
             df.n_rows * Len(select_dtypes(df, {"int64", "float64"})))

C20_RowRate == Frac(anomalies.row_anomalies[1].count, df.n_rows)

C20_Tiers(check, rate) ==
    /\ check.metrics.anomaly_rate = rate
    /\ check.passed <=> 100 * rate.n < 10 * rate.d
    /\ check.severity =
          IF 100 * rate.n > 15 * rate.d THEN "high"
          ELSE IF 100 * rate.n > 5 * rate.d THEN "medium" ELSE "low"
    /\ check.severity = "high" => ~check.passed
    /\ check.severity = "low" => check.passed

C21_Appended(check_id) ==
    {i \in 1..Len(detect_check_results) :
        detect_check_results[i].check_id = check_id}

C21_CheckId ==
    [name \in DetectorNames |->
        CASE name = "numeric"     -> "ml_numeric_anomalies"
          [] name = "categorical" -> "ml_categorical_anomalies"
          [] name = "text"        -> "ml_text_anomalies"
          [] name = "row"         -> "ml_row_anomalies"]

\* C21: the four detectors are order-independent.  Whatever the order the
\* detectors are run in, a detector that has not returned has left no
\* finding and no CheckResult, a detector that has returned has stored the
\* findings and the CheckResult it computes from the dataset alone
\* (independently of which detectors ran before it), and the consolidated
\* result exists only once all four have returned and then holds these four
\* finding lists, these CheckResults and the number of findings.
C21_OrderIndependent ==
    /\ \A name \in DetectorNames :
          IF name \in pc
          THEN /\ anomalies[AnomalyKey[name]] = <<>>
               /\ C21_Appended(C21_CheckId[name]) = {}
          ELSE \E outcome \in DetectorOutcomes(name, df, sklearn_available) :
                  /\ anomalies[AnomalyKey[name]] = outcome.anomalies
                  /\ IF outcome.check_result = None
                     THEN C21_Appended(C21_CheckId[name]) = {}
                     ELSE /\ Cardinality(C21_Appended(C21_CheckId[name])) = 1
                          /\ \A i \in C21_Appended(C21_CheckId[name]) :
                                detect_check_results[i] = outcome.check_result
    /\ detect_result # None =>
          /\ pc = {}
          /\ detect_result.anomalies = anomalies
          /\ detect_result.check_results = detect_check_results
          /\ detect_result.total_anomalies =
                 Len(anomalies.numeric_anomalies)
                   + Len(anomalies.categorical_anomalies)
                   + Len(anomalies.text_anomalies)
                   + Len(anomalies.row_anomalies)

\* detect has returned with four CheckResults, the row detector having run
\* first and the numeric detector last.
C21_Witness ==
    /\ detect_result # None
    /\ Len(detect_result.check_results) = 4
    /\ detect_result.check_results[1].check_id = "ml_row_anomalies"
    /\ detect_result.check_results[4].check_id = "ml_numeric_anomalies"
    /\ detect_result.total_anomalies >= 4

\* The calls of explain in which no provider narrative is available: LLM use
\* is disabled, no provider is configured, or the provider's request raises
\* or returns no text.
C22_FallsBack(h) ==
    \/ ~agents[h.instance].use_llm
    \/ agents[h.instance].provider = NoProvider
    \/ h.response \in {"raises", "no_response", "no_content", "empty_text"}

\* C22: ExplainerAgent.explain always returns a result; when LLM use is
\* disabled, when no provider was configured, or when the provider call
\* raises or returns no text, the returned narrative is the deterministic
\* stub's (generated_by = deterministic_stub) and the reported mode is stub
\* (the original claim; the mode is the provider's name whenever use_llm is
\* set, and the OpenAI path returns an empty text as its narrative).
C22_StubOnFailure ==
    /\ pc = "done" => history # {}
    /\ \A h \in history :
          C22_FallsBack(h) =>
              /\ h.result.generated_by = "deterministic_stub"
              /\ h.result.mode = "stub"

\* A non-empty map of dimension scores with positive weights has been scored.
C23_Case ==
    /\ pc = "done"
    /\ DOMAIN dimension_scores # {}
    /\ \A d \in DOMAIN dimension_scores : dimension_weights[d] > 0

\* The values of lines 318, 322-329, 332-337 and 340-345 on the scored map.
C23_Stages ==
    LET avg == WeightedAverage(dimension_scores, dimension_weights)
        min_score == MinScore(dimension_scores)
        below == ScoresBelow50(dimension_scores)
        capped == ApplyCompositeCeiling(avg, min_score, below)
        penalised ==
            ApplyCriticalDimPenalty(capped, CriticalDimFailing(dimension_scores))
    IN  [avg |-> avg, capped |-> capped, penalised |-> penalised,
         blended |-> BlendTowardMinimum(penalised, min_score, below)]

\* C23: for every non-empty map of dimension scores in [0,100] with positive
\* weights, the composite never exceeds the weighted average of the scores
\* rounded to two decimals: the value after the ceilings, after the
\* critical-dimension penalty and after the blend toward the minimum is each
\* at most the weighted average.
C23_AtMostAverage ==
    C23_Case =>
        \A s \in {C23_Stages} :
            /\ ~FracLess(s.avg, s.capped)
            /\ ~FracLess(s.avg, s.penalised)
            /\ ~FracLess(s.avg, s.blended)
            /\ composite_dqs <= RoundHalfEven(s.avg.n, s.avg.d)

\* C23 witness: the ceiling, the penalty and the blend all act, the blend
\* raises the penalised value, and the composite stays below the average.
C23_Witness ==
    /\ C23_Case
    /\ \E s \in {C23_Stages} :
          /\ FracLess(s.capped, s.avg)
          /\ FracLess(s.penalised, s.capped)
          /\ FracLess(s.penalised, s.blended)
          /\ composite_dqs < RoundHalfEven(s.avg.n, s.avg.d)

\* The scored map with the score of dimension d replaced by r.
C24_Raised(d, r) == [dimension_scores EXCEPT ![d] = [score |-> r]]

\* C24: the composite is monotone in each dimension score: raising the
\* score of one dimension of a scored map, the (positive) weights unchanged,
\* never lowers the composite (the original claim; a score that rises from below
\* 30 to 30 or more leaves the blend toward the minimum, which had raised
\* the penalised value).
C24_MonotoneComposite ==
    (/\ pc = "done"
     /\ DOMAIN dimension_scores # {}
     /\ \A d \in DOMAIN dimension_scores : dimension_weights[d] > 0) =>
        \A d \in DOMAIN dimension_scores : \A r \in CompositeScores :
            r > dimension_scores[d].score =>
                compute_composite_score(C24_Raised(d, r), dimension_weights)
                    >= composite_dqs

\* compute_scores has returned the score of the CheckResults of detect.
C25_Scored ==
    /\ pc = "done"
    /\ detect_result # None
    /\ composite_dqs # -1

\* C25: when the anomaly_detection dimension is scored from only the
\* CheckResults detect emits, its score is never below 66.5: none of these
\* CheckResults carries a rate field _extract_error_rate recognises (the
\* error rate is 0.05 if the check failed, else 0) and none has severity
\* critical.
C25_FloorOfAnomalyDimension ==
    /\ pc \notin {"raised"}
    /\ C25_Scored =>
          /\ check_results = detect_result.check_results
          /\ \A i \in 1..Len(check_results) :
                /\ DOMAIN check_results[i].metrics
                      \cap (RecognisedFields \cup {RateFields[j] : j \in 1..Len(RateFields)}
                              \cup {MatchFields[j] : j \in 1..Len(MatchFields)}) = {}
                /\ extract_error_rate(check_results[i]).rate
                      = (IF check_results[i].passed THEN 0 ELSE 5)
                /\ check_results[i].severity # "critical"
          /\ dimension_scores["anomaly_detection"].score >= 6650

\* C25 witness: detect emitted a failed CheckResult reporting an anomaly
\* rate of 30% or more, more than half of the CheckResults failed, and the
\* dimension score is exactly 66.5.
C25_Witness ==
    /\ C25_Scored
    /\ \E i \in 1..Len(check_results) :
          /\ ~check_results[i].passed
          /\ "anomaly_rate" \in DOMAIN check_results[i].metrics
          /\ 10 * check_results[i].metrics.anomaly_rate.n
                >= 3 * check_results[i].metrics.anomaly_rate.d
    /\ dimension_scores["anomaly_detection"].score = 6650

====
